---- MODULE Spec2Model ----
(***************************************************************************)
(* Model of java/java.go: dependency tags, the per-module                  *)
(* GenerateAndroidBuildActions pass over the direct dependencies, and the  *)
(* class loader context (CLC) construction of addCLCFromDep.               *)
(***************************************************************************)
EXTENDS Integers, Sequences, FiniteSets, TLC

\* ------------------------------------------------------------------ bounds

\* Total number of dependency edges the mutators may add to the graph.
MaxEdges == 2

\* -------------------------------------------------------- dependency tags

\* dexpreopt.AnySdkVersion: the bucket of unconditional <uses-library> entries.
AnySdkVersion == 10000

\* type dependencyTag struct { name; runtimeLinked; toolchain }
dependencyTag(name, runtimeLinked, toolchain) ==
    [name |-> name, runtimeLinked |-> runtimeLinked, toolchain |-> toolchain]

\* Mutant: the tag is always put in the any-version bucket.
makeUsesLibraryDependencyTag_anyVersion(sdkVersion, optional) ==
    [dependencyTag |-> dependencyTag("uses-library-" \o ToString(sdkVersion), TRUE, FALSE),
     sdkVersion |-> AnySdkVersion,
     optional |-> optional]

\* Mutant: the optional flag is not stored.
makeUsesLibraryDependencyTag_dropsOptional(sdkVersion, optional) ==
    [dependencyTag |-> dependencyTag("uses-library-" \o ToString(sdkVersion), TRUE, FALSE),
     sdkVersion |-> sdkVersion,
     optional |-> FALSE]

\* func makeUsesLibraryDependencyTag(sdkVersion int, optional bool)
makeUsesLibraryDependencyTag(sdkVersion, optional) ==
    [dependencyTag |-> dependencyTag("uses-library-" \o ToString(sdkVersion), TRUE, FALSE),
     sdkVersion |-> sdkVersion,
     optional |-> optional]

dataNativeBinsTag == dependencyTag("dataNativeBins", FALSE, FALSE)
dataDeviceBinsTag == dependencyTag("dataDeviceBins", FALSE, FALSE)
staticLibTag == dependencyTag("staticlib", FALSE, FALSE)
libTag == dependencyTag("javalib", TRUE, FALSE)
sdkLibTag == dependencyTag("sdklib", TRUE, FALSE)
java9LibTag == dependencyTag("java9lib", TRUE, FALSE)

\* Mutant: the plugin tag marked runtime-linked instead of toolchain.
pluginTag_runtimeLinked == dependencyTag("plugin", TRUE, FALSE)
pluginTag == dependencyTag("plugin", FALSE, TRUE)

errorpronePluginTag == dependencyTag("errorprone-plugin", FALSE, TRUE)
exportedPluginTag == dependencyTag("exported-plugin", FALSE, TRUE)
bootClasspathTag == dependencyTag("bootclasspath", TRUE, FALSE)
systemModulesTag == dependencyTag("system modules", TRUE, FALSE)
frameworkResTag == dependencyTag("framework-res", FALSE, FALSE)
kotlinStdlibTag == dependencyTag("kotlin-stdlib", TRUE, FALSE)
kotlinAnnotationsTag == dependencyTag("kotlin-annotations", TRUE, FALSE)
kotlinPluginTag == dependencyTag("kotlin-plugin", FALSE, TRUE)
proguardRaiseTag == dependencyTag("proguard-raise", FALSE, FALSE)
certificateTag == dependencyTag("certificate", FALSE, FALSE)
instrumentationForTag == dependencyTag("instrumentation_for", FALSE, FALSE)
extraLintCheckTag == dependencyTag("extra-lint-check", FALSE, TRUE)
jniLibTag == dependencyTag("jnilib", TRUE, FALSE)
r8LibraryJarTag == dependencyTag("r8-libraryjar", TRUE, FALSE)
syspropPublicStubDepTag == dependencyTag("sysprop public stub", FALSE, FALSE)
javaApiContributionTag == dependencyTag("java-api-contribution", FALSE, FALSE)
depApiSrcsTag == dependencyTag("dep-api-srcs", FALSE, FALSE)
usesLibReqTag == makeUsesLibraryDependencyTag(AnySdkVersion, FALSE)
usesLibOptTag == makeUsesLibraryDependencyTag(AnySdkVersion, TRUE)
usesLibCompat28OptTag == makeUsesLibraryDependencyTag(28, TRUE)
usesLibCompat29ReqTag == makeUsesLibraryDependencyTag(29, FALSE)
usesLibCompat30OptTag == makeUsesLibraryDependencyTag(30, TRUE)

\* depTag.(usesLibraryDependencyTag): the type assertion on a tag value.
IsUsesLibraryDependencyTag(depTag) == "sdkVersion" \in DOMAIN depTag

\* The embedded dependencyTag of either kind of tag.
BaseTag(depTag) ==
    IF IsUsesLibraryDependencyTag(depTag) THEN depTag.dependencyTag ELSE depTag

\* func IsLibDepTag(depTag)
IsLibDepTag(depTag) == depTag = libTag \/ depTag = sdkLibTag

\* func IsStaticLibDepTag(depTag)
IsStaticLibDepTag(depTag) == depTag = staticLibTag

\* ------------------------------------------- dexpreopt.ClassLoaderContextMap

\* The SDK-version buckets a ClassLoaderContextMap is keyed by.
Buckets == {AnySdkVersion, 28, 29, 30}

\* make(dexpreopt.ClassLoaderContextMap)
EmptyCLC == [b \in Buckets |-> << >>]

NoPath == "nil"

\* The names of the entries of one bucket, in order.
EntryNames(entries) == {entries[i].Name : i \in DOMAIN entries}

\* ClassLoaderContextMap.AddContext: a new entry for lib in bucket sdkVer with
\* the nested map as its subtree; a library already in the bucket is kept.
AddContext(clcMap, sdkVer, lib, optional, hostPath, installPath, nestedClcMap) ==
    IF lib \in EntryNames(clcMap[sdkVer])
    THEN clcMap
    ELSE [clcMap EXCEPT ![sdkVer] =
            Append(@, [Name |-> lib, Optional |-> optional, Host |-> hostPath,
                       Device |-> installPath, Subcontexts |-> nestedClcMap])]

RECURSIVE MergeEntries(_, _)
\* Appends the entries of other whose name is not yet in entries, in order.
MergeEntries(entries, other) ==
    IF other = << >> THEN entries
    ELSE MergeEntries(
            IF Head(other).Name \in EntryNames(entries)
            THEN entries ELSE Append(entries, Head(other)),
            Tail(other))

\* ClassLoaderContextMap.AddContextMap: merge the other map into this one,
\* bucket by bucket, adding no node for the library the other map belongs to.
AddContextMap(clcMap, otherClcMap, depName) ==
    [b \in Buckets |-> MergeEntries(clcMap[b], otherClcMap[b])]

\* ------------------------------------------------------------ module graph

\* The modules of the build, in an order the dependency edges respect: a
\* module depends only on modules before it (the graph engine precludes cycles).
Modules == {1, 2, 3}

PrebuiltPrefix == "prebuilt_"

NoString == << >>

\* A module declaration: its type, its name (with the prebuilt_ prefix for a
\* prebuilt that has a source counterpart), whether it is a shared SDK library
\* (SdkLibraryDependency.sharedLibrary()), its provides_uses_lib property and
\* whether it ends up with a dex jar (compile_dex for a java_import).  The other
\* properties have their defaults: the sdk_version resolves, no proguard flags
\* are exported, no file (a base name and an extension) is produced as a
\* source, no api_file is set, the module is no variant made for a
\* prebuilt_apex (ApexInfo.ForPrebuiltApex; deapexer tells what the deapexer
\* module of such a variant offers: "none" if there is no deapexer provider,
\* "exports" if it exports the dex jar of the library, "noexport" if not).
ModuleDecl(type, name, shared, provides, dex) ==
    [moduleType |-> type, name |-> name, sharedLibrary |-> shared,
     provides_uses_lib |-> provides, dex |-> dex,
     sdk_version |-> "current",
     export_proguard_flags_files |-> FALSE,
     srcs |-> << >>,
     api_file |-> NoString,
     forPrebuiltApex |-> FALSE,
     deapexer |-> "none"]

LeafDecls ==
    { ModuleDecl("java_sdk_library", <<"bar">>, TRUE, NoString, TRUE),
      ModuleDecl("java_sdk_library_import", <<PrebuiltPrefix, "bar">>, TRUE, NoString, FALSE),
      [ModuleDecl("java_genrule", <<"gen">>, FALSE, NoString, FALSE)
          EXCEPT !.srcs = <<<<"gen", ".jar">>>>] }

MidDecls ==
    { ModuleDecl("java_library", <<"foo">>, FALSE, NoString, TRUE),
      ModuleDecl("java_sdk_library", <<"foo">>, TRUE, NoString, TRUE),
      ModuleDecl("java_library", <<"foo">>, FALSE, <<"foo.provided">>, TRUE) }

TopDecls ==
    { ModuleDecl("java_import", <<"app">>, FALSE, NoString, TRUE),
      ModuleDecl("java_library", <<"app">>, FALSE, NoString, TRUE) }

Decls(n) == IF n = 1 THEN LeafDecls ELSE IF n = 2 THEN MidDecls ELSE TopDecls

\* The tags the modelled mutators put on dependency edges.
EdgeTags ==
    { staticLibTag, libTag, sdkLibTag, pluginTag, bootClasspathTag, systemModulesTag,
      usesLibReqTag, usesLibOptTag, usesLibCompat28OptTag }

VARIABLES
    module,               \* module -> its declaration
    deps,                 \* module -> its direct dependency edges, in the order added
    generated,            \* modules whose GenerateAndroidBuildActions has run
    classLoaderContexts,  \* module -> j.classLoaderContexts
    dexJarFile,           \* module -> j.dexJarFile (NoPath while unset)
    dexJarInstallFile,    \* module -> j.dexJarInstallFile (NoPath while unset)
    javaInfo,             \* module -> the JavaInfo it set as provider (NoInfo if none)
    flags,                \* module -> javaBuilderFlags collected from the direct deps
    errors,               \* module -> number of errors reported with ctx.ModuleErrorf
    missingDeps,          \* module -> names given to ctx.AddMissingDependencies
    proguardSpecInfo,     \* module -> the ProguardSpecInfo it set as provider
    config,               \* ctx.Config(): the build-wide settings
    javaApiImportInfo,    \* module -> the JavaApiImportInfo it set as provider
    panicked,             \* modules whose GenerateAndroidBuildActions panicked
    curTag,               \* the dependency tag last built or looked up
    tagArgs,              \* the arguments curTag was built with (NoArgs if predefined)
    licenseAnnotations,   \* curTag.LicenseAnnotations()
    javaVersion,          \* the Java language level javac is run for
    sdkContext,           \* the sdk_version and optimize properties sdkDeps is run for
    sdkEdges,             \* the dependencies sdkDeps added, in order
    javac,                \* the boot classpath arguments javac is run with
    apiFiles,             \* al.properties.Api_files as paths, the files to sort
    sortedApiFiles,       \* what sortApiFilesByApiScope made of them, once called
    testHostProperties,   \* j.testHostProperties: the data_device_bins_* lists
    androidTargets,       \* which of lib32 and lib64 ctx.Config().Targets[Android] has
    dataDeviceBinsDeps,   \* what addDataDeviceBinsDeps added and reported, once called
    java_version,         \* the java_version property of a module
    normalized            \* what normalizeJavaVersion made of it, once called

graphVars == <<module, deps, generated, classLoaderContexts, dexJarFile, dexJarInstallFile,
               javaInfo, flags, errors, missingDeps, proguardSpecInfo, javaApiImportInfo,
               config, panicked>>

tagVars == <<curTag, tagArgs, licenseAnnotations>>

sdkVars == <<javaVersion, sdkContext, sdkEdges, javac>>

apiVars == <<apiFiles, sortedApiFiles>>

testHostVars == <<testHostProperties, androidTargets, dataDeviceBinsDeps>>

versionVars == <<java_version, normalized>>

callVars == <<apiVars, testHostVars, versionVars>>

vars == <<graphVars, tagVars, sdkVars, callVars>>

NoInfo == [provided |-> FALSE]

EmptyFlags == [classpath |-> << >>, dexClasspath |-> << >>, bootClasspath |-> << >>]

RECURSIVE SumLen(_, _)
SumLen(f, S) ==
    IF S = {} THEN 0
    ELSE LET n == CHOOSE x \in S : TRUE IN Len(f[n]) + SumLen(f, S \ {n})

\* Modules built on java.Library carry the usesLibrary properties.
IsLibraryType(n) == module[n].moduleType \in {"java_library", "java_sdk_library"}

IsImportType(n) == module[n].moduleType \in {"java_import", "java_sdk_library_import"}

\* android.RemoveOptionalPrebuiltPrefix
RemoveOptionalPrebuiltPrefix(name) ==
    IF Len(name) > 1 /\ Head(name) = PrebuiltPrefix THEN Tail(name) ELSE name

\* The dependency seen through the interfaces its dependents assert on it.
\* ctx.OtherModuleName, depModule.(UsesLibraryDependency),
\* depModule.(SdkLibraryDependency), depModule.(ProvidesUsesLib),
\* depModule.(android.SourceFileProducer).
DepView(decl, clc, dexJar, installFile) ==
    [name |-> decl.name,
     isUsesLibraryDependency |->
         decl.moduleType \notin {"java_genrule", "java_api_contribution"},
     isSdkLibraryDependency |-> decl.moduleType \in {"java_sdk_library", "java_sdk_library_import"},
     sharedLibrary |-> decl.sharedLibrary,
     isProvidesUsesLib |-> decl.moduleType \in {"java_library", "java_sdk_library"},
     providesUsesLib |-> decl.provides_uses_lib,
     isSourceFileProducer |-> decl.moduleType = "java_genrule",
     Srcs |-> decl.srcs,
     DexJarBuildPath |-> dexJar,
     DexJarInstallPath |-> installFile,
     ClassLoaderContexts |-> clc]

\* What a module has published: its providers and its interface view.
OtherModule(m) ==
    [info |-> javaInfo[m],
     proguard |-> proguardSpecInfo[m],
     apiImport |-> javaApiImportInfo[m],
     view |-> DepView(module[m], classLoaderContexts[m], dexJarFile[m], dexJarInstallFile[m])]

\* The published outputs a GenerateAndroidBuildActions reads through ctx.
Published == [m \in Modules |-> OtherModule(m)]

\* The module context of one visited dependency: ctx.OtherModuleDependencyTag
\* of that dependency and the errors reported so far with ctx.ModuleErrorf.
ModuleContext(depTag, errs) == [depTag |-> depTag, errors |-> errs]

\* ---------------------------------------------------------- addCLCFromDep

\* Mutant: the new node is added without the dependency's own map below it.
addCLCFromDep_noSubtree(ctx, depModule, clcMap) ==
    IF ~depModule.isUsesLibraryDependency
    THEN [clcMap |-> clcMap, errors |-> ctx.errors]
    ELSE
    LET depName == RemoveOptionalPrebuiltPrefix(depModule.name)
        sdkLib ==
            IF depModule.isSdkLibraryDependency /\ depModule.sharedLibrary THEN depName
            ELSE IF depModule.isProvidesUsesLib THEN depModule.providesUsesLib
            ELSE NoString
        depTag == ctx.depTag
        propagate ==
            IF IsLibDepTag(depTag) THEN TRUE
            ELSE IF IsUsesLibraryDependencyTag(depTag) /\ depTag.sdkVersion = AnySdkVersion
                 THEN TRUE
            ELSE IF depTag = staticLibTag THEN sdkLib = NoString
            ELSE FALSE
    IN  [clcMap |->
            IF ~propagate THEN clcMap
            ELSE IF sdkLib # NoString
            THEN AddContext(clcMap, AnySdkVersion, sdkLib, FALSE,
                            depModule.DexJarBuildPath, depModule.DexJarInstallPath,
                            EmptyCLC)
            ELSE AddContextMap(clcMap, depModule.ClassLoaderContexts, depName),
         errors |-> ctx.errors]

\* Mutant: no static_libs edge propagates anything.
addCLCFromDep_staticStops(ctx, depModule, clcMap) ==
    IF ~depModule.isUsesLibraryDependency
    THEN [clcMap |-> clcMap, errors |-> ctx.errors]
    ELSE
    LET depName == RemoveOptionalPrebuiltPrefix(depModule.name)
        sdkLib ==
            IF depModule.isSdkLibraryDependency /\ depModule.sharedLibrary THEN depName
            ELSE IF depModule.isProvidesUsesLib THEN depModule.providesUsesLib
            ELSE NoString
        depTag == ctx.depTag
        propagate ==
            IF IsLibDepTag(depTag) THEN TRUE
            ELSE IF IsUsesLibraryDependencyTag(depTag) /\ depTag.sdkVersion = AnySdkVersion
                 THEN TRUE
            ELSE IF depTag = staticLibTag THEN FALSE
            ELSE FALSE
    IN  [clcMap |->
            IF ~propagate THEN clcMap
            ELSE IF sdkLib # NoString
            THEN AddContext(clcMap, AnySdkVersion, sdkLib, FALSE,
                            depModule.DexJarBuildPath, depModule.DexJarInstallPath,
                            depModule.ClassLoaderContexts)
            ELSE AddContextMap(clcMap, depModule.ClassLoaderContexts, depName),
         errors |-> ctx.errors]

\* Mutant: a static_libs edge to an SDK library is not stopped.
addCLCFromDep_staticSdkFallsThrough(ctx, depModule, clcMap) ==
    IF ~depModule.isUsesLibraryDependency
    THEN [clcMap |-> clcMap, errors |-> ctx.errors]
    ELSE
    LET depName == RemoveOptionalPrebuiltPrefix(depModule.name)
        sdkLib ==
            IF depModule.isSdkLibraryDependency /\ depModule.sharedLibrary THEN depName
            ELSE IF depModule.isProvidesUsesLib THEN depModule.providesUsesLib
            ELSE NoString
        depTag == ctx.depTag
        propagate ==
            IF IsLibDepTag(depTag) THEN TRUE
            ELSE IF IsUsesLibraryDependencyTag(depTag) /\ depTag.sdkVersion = AnySdkVersion
                 THEN TRUE
            ELSE IF depTag = staticLibTag THEN TRUE
            ELSE FALSE
    IN  [clcMap |->
            IF ~propagate THEN clcMap
            ELSE IF sdkLib # NoString
            THEN AddContext(clcMap, AnySdkVersion, sdkLib, FALSE,
                            depModule.DexJarBuildPath, depModule.DexJarInstallPath,
                            depModule.ClassLoaderContexts)
            ELSE AddContextMap(clcMap, depModule.ClassLoaderContexts, depName),
         errors |-> ctx.errors]

\* Mutant: a dependency that is no SDK library becomes a node under its own name.
addCLCFromDep_nodeForEveryDep(ctx, depModule, clcMap) ==
    IF ~depModule.isUsesLibraryDependency
    THEN [clcMap |-> clcMap, errors |-> ctx.errors]
    ELSE
    LET depName == RemoveOptionalPrebuiltPrefix(depModule.name)
        sdkLib ==
            IF depModule.isSdkLibraryDependency /\ depModule.sharedLibrary THEN depName
            ELSE IF depModule.isProvidesUsesLib /\ depModule.providesUsesLib # NoString
            THEN depModule.providesUsesLib
            ELSE depName
        depTag == ctx.depTag
        propagate ==
            IF IsLibDepTag(depTag) THEN TRUE
            ELSE IF IsUsesLibraryDependencyTag(depTag) /\ depTag.sdkVersion = AnySdkVersion
                 THEN TRUE
            ELSE IF depTag = staticLibTag THEN sdkLib = NoString
            ELSE FALSE
    IN  [clcMap |->
            IF ~propagate THEN clcMap
            ELSE IF sdkLib # NoString
            THEN AddContext(clcMap, AnySdkVersion, sdkLib, FALSE,
                            depModule.DexJarBuildPath, depModule.DexJarInstallPath,
                            depModule.ClassLoaderContexts)
            ELSE AddContextMap(clcMap, depModule.ClassLoaderContexts, depName),
         errors |-> ctx.errors]

\* Mutant: a library without a dex jar gets no node.
addCLCFromDep_skipsMissingJar(ctx, depModule, clcMap) ==
    IF ~depModule.isUsesLibraryDependency
    THEN [clcMap |-> clcMap, errors |-> ctx.errors]
    ELSE
    LET depName == RemoveOptionalPrebuiltPrefix(depModule.name)
        sdkLib ==
            IF depModule.isSdkLibraryDependency /\ depModule.sharedLibrary THEN depName
            ELSE IF depModule.isProvidesUsesLib THEN depModule.providesUsesLib
            ELSE NoString
        depTag == ctx.depTag
        propagate ==
            IF IsLibDepTag(depTag) THEN TRUE
            ELSE IF IsUsesLibraryDependencyTag(depTag) /\ depTag.sdkVersion = AnySdkVersion
                 THEN TRUE
            ELSE IF depTag = staticLibTag THEN sdkLib = NoString
            ELSE FALSE
    IN  [clcMap |->
            IF ~propagate THEN clcMap
            ELSE IF sdkLib # NoString
            THEN IF depModule.DexJarBuildPath = NoPath THEN clcMap
                 ELSE AddContext(clcMap, AnySdkVersion, sdkLib, FALSE,
                            depModule.DexJarBuildPath, depModule.DexJarInstallPath,
                            depModule.ClassLoaderContexts)
            ELSE AddContextMap(clcMap, depModule.ClassLoaderContexts, depName),
         errors |-> ctx.errors]

\* Mutant: a libs edge to a library that is no SDK-surface library is a dead end.
addCLCFromDep_libStops(ctx, depModule, clcMap) ==
    IF ~depModule.isUsesLibraryDependency
    THEN [clcMap |-> clcMap, errors |-> ctx.errors]
    ELSE
    LET depName == RemoveOptionalPrebuiltPrefix(depModule.name)
        sdkLib ==
            IF depModule.isSdkLibraryDependency /\ depModule.sharedLibrary THEN depName
            ELSE IF depModule.isProvidesUsesLib THEN depModule.providesUsesLib
            ELSE NoString
        depTag == ctx.depTag
        propagate ==
            IF IsLibDepTag(depTag) THEN sdkLib # NoString
            ELSE IF IsUsesLibraryDependencyTag(depTag) /\ depTag.sdkVersion = AnySdkVersion
                 THEN TRUE
            ELSE IF depTag = staticLibTag THEN sdkLib = NoString
            ELSE FALSE
    IN  [clcMap |->
            IF ~propagate THEN clcMap
            ELSE IF sdkLib # NoString
            THEN AddContext(clcMap, AnySdkVersion, sdkLib, FALSE,
                            depModule.DexJarBuildPath, depModule.DexJarInstallPath,
                            depModule.ClassLoaderContexts)
            ELSE AddContextMap(clcMap, depModule.ClassLoaderContexts, depName),
         errors |-> ctx.errors]

\* Mutant: the entry goes into the bucket of the uses-library tag, with its
\* optional flag, and compatibility edges propagate too.
addCLCFromDep_asTheTagSays(ctx, depModule, clcMap) ==
    IF ~depModule.isUsesLibraryDependency
    THEN [clcMap |-> clcMap, errors |-> ctx.errors]
    ELSE
    LET depName == RemoveOptionalPrebuiltPrefix(depModule.name)
        sdkLib ==
            IF depModule.isSdkLibraryDependency /\ depModule.sharedLibrary THEN depName
            ELSE IF depModule.isProvidesUsesLib THEN depModule.providesUsesLib
            ELSE NoString
        depTag == ctx.depTag
        propagate ==
            IF IsLibDepTag(depTag) THEN TRUE
            ELSE IF IsUsesLibraryDependencyTag(depTag)
                 THEN TRUE
            ELSE IF depTag = staticLibTag THEN sdkLib = NoString
            ELSE FALSE
    IN  [clcMap |->
            IF ~propagate THEN clcMap
            ELSE IF sdkLib # NoString
            THEN AddContext(clcMap,
                            IF IsUsesLibraryDependencyTag(depTag)
                            THEN depTag.sdkVersion ELSE AnySdkVersion,
                            sdkLib,
                            IsUsesLibraryDependencyTag(depTag) /\ depTag.optional,
                            depModule.DexJarBuildPath, depModule.DexJarInstallPath,
                            depModule.ClassLoaderContexts)
            ELSE AddContextMap(clcMap, depModule.ClassLoaderContexts, depName),
         errors |-> ctx.errors]

\* func addCLCFromDep(ctx, depModule, clcMap): the map, and the errors of ctx,
\* after the dependency depModule has been accounted for.
addCLCFromDep(ctx, depModule, clcMap) ==
    IF ~depModule.isUsesLibraryDependency
    THEN [clcMap |-> clcMap, errors |-> ctx.errors]
    ELSE
    LET depName == RemoveOptionalPrebuiltPrefix(depModule.name)
        sdkLib ==
            IF depModule.isSdkLibraryDependency /\ depModule.sharedLibrary THEN depName
            ELSE IF depModule.isProvidesUsesLib THEN depModule.providesUsesLib
            ELSE NoString
        depTag == ctx.depTag
        propagate ==
            IF IsLibDepTag(depTag) THEN TRUE
            ELSE IF IsUsesLibraryDependencyTag(depTag) /\ depTag.sdkVersion = AnySdkVersion
                 THEN TRUE
            ELSE IF depTag = staticLibTag THEN sdkLib = NoString
            ELSE FALSE
    IN  [clcMap |->
            IF ~propagate THEN clcMap
            ELSE IF sdkLib # NoString
            THEN AddContext(clcMap, AnySdkVersion, sdkLib, FALSE,
                            depModule.DexJarBuildPath, depModule.DexJarInstallPath,
                            depModule.ClassLoaderContexts)
            ELSE AddContextMap(clcMap, depModule.ClassLoaderContexts, depName),
         errors |-> ctx.errors]

\* ------------------------------------------ Import.GenerateAndroidBuildActions

\* Paths of the files a module produces.
CombinedClasspathFile(n) == <<n, "combined.jar">>
DexJarPath(n) == <<n, "dex.jar">>
InstallPath(n) == <<n, "framework.jar">>
SdkHeaderJar(n) == <<n, "sdk-header.jar">>
HeaderJar(n) == <<n, "turbine.jar">>

RECURSIVE FirstUniquePaths(_, _)
\* The paths of list that are not in seen, each once, in first-seen order.
FirstUniquePaths(seen, list) ==
    IF list = << >> THEN << >>
    ELSE IF Head(list) \in seen THEN FirstUniquePaths(seen, Tail(list))
    ELSE <<Head(list)>> \o FirstUniquePaths(seen \cup {Head(list)}, Tail(list))

\* android.NewDepSet(order, direct, transitive).ToList(): the direct paths
\* before the inherited ones, every path once.
NewDepSet(direct, transitive) == FirstUniquePaths({}, direct \o transitive)

\* The edge is a libs, sdk-surface libs or uses-library edge.
IsSharedEdgeTag(depTag) == IsLibDepTag(depTag) \/ IsUsesLibraryDependencyTag(depTag)

EmptyTransitive ==
    [directLibs |-> << >>, directStaticLibs |-> << >>,
     transitiveLibs |-> << >>, transitiveStaticLibs |-> << >>]

RECURSIVE collectTransitiveHeaderJars(_, _, _)
\* j.collectTransitiveHeaderJars(ctx): a static dependency contributes its
\* header jars and both its transitive sets, a shared or uses-library
\* dependency its header jars only.
collectTransitiveHeaderJars(edges, pub, acc) ==
    IF edges = << >>
    THEN [transitiveLibsHeaderJars |-> NewDepSet(acc.directLibs, acc.transitiveLibs),
          transitiveStaticLibsHeaderJars |->
              NewDepSet(acc.directStaticLibs, acc.transitiveStaticLibs)]
    ELSE LET tag == Head(edges).tag
             dep == pub[Head(edges).dep].info
         IN  collectTransitiveHeaderJars(Tail(edges), pub,
                IF ~dep.provided THEN acc
                ELSE IF tag = staticLibTag
                THEN [acc EXCEPT
                        !.directLibs = @ \o dep.HeaderJars,
                        !.directStaticLibs = @ \o dep.HeaderJars,
                        !.transitiveLibs = @ \o dep.TransitiveLibsHeaderJars,
                        !.transitiveStaticLibs = @ \o dep.TransitiveStaticLibsHeaderJars]
                ELSE IF IsSharedEdgeTag(tag)
                THEN [acc EXCEPT !.directLibs = @ \o dep.HeaderJars]
                ELSE acc)

\* Mutant: a libs dependency is put on the compile classpath only.
ImportVisitDep_libsOffDexClasspath(acc, edge, other) ==
    LET tag == edge.tag
        info == other.info
        f == acc.flags
        f1 ==
            IF info.provided
            THEN IF tag = libTag \/ tag = sdkLibTag \/ tag = staticLibTag
                 THEN [f EXCEPT !.classpath = @ \o info.HeaderJars]
                 ELSE IF tag = bootClasspathTag
                 THEN [f EXCEPT !.bootClasspath = @ \o info.HeaderJars]
                 ELSE f
            ELSE IF other.view.isSdkLibraryDependency /\ (tag = libTag \/ tag = sdkLibTag)
                 THEN [f EXCEPT !.classpath = @ \o <<SdkHeaderJar(edge.dep)>>]
                 ELSE f
        r == addCLCFromDep(ModuleContext(tag, acc.errors), other.view, acc.clc)
    IN  [flags |-> f1, clc |-> r.clcMap, errors |-> r.errors]

\* Mutant: a static_libs dependency is put on the dex classpath too.
ImportVisitDep_staticOnDexClasspath(acc, edge, other) ==
    LET tag == edge.tag
        info == other.info
        f == acc.flags
        f1 ==
            IF info.provided
            THEN IF tag = libTag \/ tag = sdkLibTag \/ tag = staticLibTag
                 THEN [f EXCEPT !.classpath = @ \o info.HeaderJars,
                                !.dexClasspath = @ \o info.HeaderJars]
                 ELSE IF tag = bootClasspathTag
                 THEN [f EXCEPT !.bootClasspath = @ \o info.HeaderJars]
                 ELSE f
            ELSE IF other.view.isSdkLibraryDependency /\ (tag = libTag \/ tag = sdkLibTag)
                 THEN [f EXCEPT !.classpath = @ \o <<SdkHeaderJar(edge.dep)>>]
                 ELSE f
        r == addCLCFromDep(ModuleContext(tag, acc.errors), other.view, acc.clc)
    IN  [flags |-> f1, clc |-> r.clcMap, errors |-> r.errors]

\* Mutant: a static dependency also brings its transitive static header jars
\* onto the classpath.
ImportVisitDep_staticBringsTransitive(acc, edge, other) ==
    LET tag == edge.tag
        info == other.info
        f == acc.flags
        f1 ==
            IF info.provided
            THEN IF tag = libTag \/ tag = sdkLibTag
                 THEN [f EXCEPT !.classpath = @ \o info.HeaderJars,
                                !.dexClasspath = @ \o info.HeaderJars]
                 ELSE IF tag = staticLibTag
                 THEN [f EXCEPT !.classpath =
                          @ \o info.HeaderJars \o info.TransitiveStaticLibsHeaderJars]
                 ELSE IF tag = bootClasspathTag
                 THEN [f EXCEPT !.bootClasspath = @ \o info.HeaderJars]
                 ELSE f
            ELSE IF other.view.isSdkLibraryDependency /\ (tag = libTag \/ tag = sdkLibTag)
                 THEN [f EXCEPT !.classpath = @ \o <<SdkHeaderJar(edge.dep)>>]
                 ELSE f
        r == addCLCFromDep(ModuleContext(tag, acc.errors), other.view, acc.clc)
    IN  [flags |-> f1, clc |-> r.clcMap, errors |-> r.errors]

\* One call of the ctx.VisitDirectDeps callback of Import.GenerateAndroidBuildActions:
\* acc holds flags, j.classLoaderContexts and the errors of ctx, edge is the
\* visited dependency and other what that dependency has published.
ImportVisitDep(acc, edge, other) ==
    LET tag == edge.tag
        info == other.info
        f == acc.flags
        f1 ==
            IF info.provided
            THEN IF tag = libTag \/ tag = sdkLibTag
                 THEN [f EXCEPT !.classpath = @ \o info.HeaderJars,
                                !.dexClasspath = @ \o info.HeaderJars]
                 ELSE IF tag = staticLibTag
                 THEN [f EXCEPT !.classpath = @ \o info.HeaderJars]
                 ELSE IF tag = bootClasspathTag
                 THEN [f EXCEPT !.bootClasspath = @ \o info.HeaderJars]
                 ELSE f
            ELSE IF other.view.isSdkLibraryDependency /\ (tag = libTag \/ tag = sdkLibTag)
                 THEN [f EXCEPT !.classpath = @ \o <<SdkHeaderJar(edge.dep)>>]
                 ELSE f
        r == addCLCFromDep(ModuleContext(tag, acc.errors), other.view, acc.clc)
    IN  [flags |-> f1, clc |-> r.clcMap, errors |-> r.errors]

RECURSIVE ImportVisitDirectDeps(_, _, _)
\* ctx.VisitDirectDeps(func(module) {...}) of Import.GenerateAndroidBuildActions
\* over the edges, in the order they were added; pub is what the dependencies
\* have published.
ImportVisitDirectDeps(edges, pub, acc) ==
    IF edges = << >> THEN acc
    ELSE ImportVisitDirectDeps(Tail(edges), pub,
            ImportVisitDep(acc, Head(edges), pub[Head(edges).dep]))

\* The flags, class loader contexts and errors Import.GenerateAndroidBuildActions
\* has after the visit of the direct dependencies of a module with these edges.
ImportBuild(edges, pub) ==
    ImportVisitDirectDeps(edges, pub,
        [flags |-> EmptyFlags, clc |-> EmptyCLC, errors |-> 0])

\* The graph engine runs a module's GenerateAndroidBuildActions only after
\* those of all its direct dependencies, and once.  Whether the run goes on
\* with other modules after a panic is the engine's business: the model has
\* both the behaviours that go on and those that stop.
Ready(n) ==
    /\ n \notin generated
    /\ n \notin panicked
    /\ \A i \in DOMAIN deps[n] : deps[n][i].dep \in generated

\* j.dexJarFile / j.dexJarInstallFile once the dex jar has been built.
DexJarFileOf(decl, n) == IF decl.dex THEN DexJarPath(n) ELSE NoPath
DexJarInstallFileOf(decl, n) == IF decl.dex THEN InstallPath(n) ELSE NoPath

\* type sdkDep struct
EmptySdkDep ==
    [useModule |-> FALSE, useFiles |-> FALSE, invalidVersion |-> FALSE,
     bootclasspath |-> << >>, systemModules |-> "", classpath |-> << >>,
     java9Classpath |-> << >>, jars |-> << >>,
     noStandardLibs |-> FALSE, noFrameworksLibs |-> FALSE]

\* decodeSdkDep(ctx, sdkContext): the descriptor of the module's SDK surface
\* and the errors of ctx afterwards.  A surface that cannot be resolved gives
\* invalidVersion with the name of the missing SDK module when missing
\* dependencies are allowed, and is a property error otherwise.
decodeSdkDep(ctx, cfg, decl) ==
    IF decl.sdk_version = "missing"
    THEN IF cfg.AllowMissingDependencies
         THEN [sdkDep |-> [EmptySdkDep EXCEPT !.invalidVersion = TRUE,
                                              !.bootclasspath = <<"sdk_public_missing_android">>],
               errors |-> ctx.errors]
         ELSE [sdkDep |-> EmptySdkDep, errors |-> ctx.errors + 1]
    ELSE IF decl.sdk_version = "none"
    THEN [sdkDep |-> [EmptySdkDep EXCEPT !.useModule = TRUE, !.noStandardLibs = TRUE],
          errors |-> ctx.errors]
    ELSE IF decl.sdk_version = "current"
    THEN [sdkDep |-> [EmptySdkDep EXCEPT !.useModule = TRUE,
                                         !.bootclasspath = <<"android_stubs_current">>,
                                         !.systemModules = "core-public-stubs-system-modules",
                                         !.java9Classpath = <<"android_stubs_current">>],
          errors |-> ctx.errors]
    ELSE [sdkDep |-> [EmptySdkDep EXCEPT !.useFiles = TRUE,
                                         !.jars = <<<<decl.sdk_version, "android.jar">>>>],
          errors |-> ctx.errors]

\* Paths of the dex jar a prebuilt_apex variant takes from its deapexer module.
ApexDexJarPath(n) == <<n, "deapexer/javalib.jar">>
ApexInstallPath(n) == <<n, "apex/javalib.jar">>

\* The ai.ForPrebuiltApex branch of Import.GenerateAndroidBuildActions:
\* without a deapexer provider FindDeapexerProviderForModule has reported an
\* error and the function returns; a dex jar the deapexer exports becomes the
\* module's; one it does not export is a module error after which the
\* function goes on.
ImportPrebuiltApexDex(n, decl, r) ==
    LET none == [flags |-> r.flags, errors |-> r.errors, missingDeps |-> << >>,
                 dexJarFile |-> NoPath, dexJarInstallFile |-> NoPath, returned |-> FALSE]
    IN  IF decl.deapexer = "none"
        THEN [none EXCEPT !.errors = r.errors + 1, !.returned = TRUE]
        ELSE IF decl.deapexer = "exports"
        THEN [none EXCEPT !.dexJarFile = ApexDexJarPath(n),
                          !.dexJarInstallFile = ApexInstallPath(n)]
        ELSE [none EXCEPT !.errors = r.errors + 1]

\* Mutant: an invalid SDK version is reported as a module error.
ImportDex_invalidIsError(n, decl, cfg, r) ==
    LET none == [flags |-> r.flags, errors |-> r.errors, missingDeps |-> << >>,
                 dexJarFile |-> NoPath, dexJarInstallFile |-> NoPath, returned |-> FALSE]
    IN  IF decl.forPrebuiltApex THEN ImportPrebuiltApexDex(n, decl, r)
        ELSE IF ~decl.dex THEN none
        ELSE LET d == decodeSdkDep(ModuleContext(NoString, r.errors), cfg, decl)
                 sdk == d.sdkDep
                 errs == IF sdk.invalidVersion THEN d.errors + 1 ELSE d.errors
             IN  IF errs > 0
                 THEN [none EXCEPT !.errors = errs, !.returned = TRUE]
                 ELSE [none EXCEPT !.flags = IF sdk.useFiles
                                             THEN [r.flags EXCEPT !.classpath = @ \o sdk.jars]
                                             ELSE r.flags,
                                   !.dexJarFile = DexJarPath(n),
                                   !.dexJarInstallFile = InstallPath(n)]

\* The ctx.Device() branch of Import.GenerateAndroidBuildActions: a variant
\* made for a prebuilt_apex takes its dex jar from the deapexer; otherwise,
\* with compile_dex, the SDK is resolved, an invalid version is turned into
\* missing dependencies, the dex jar is built, and the function returns early
\* if the module has failed.  r is the state after the visit of the direct
\* dependencies.
ImportDex(n, decl, cfg, r) ==
    LET none == [flags |-> r.flags, errors |-> r.errors, missingDeps |-> << >>,
                 dexJarFile |-> NoPath, dexJarInstallFile |-> NoPath, returned |-> FALSE]
    IN  IF decl.forPrebuiltApex THEN ImportPrebuiltApexDex(n, decl, r)
        ELSE IF ~decl.dex THEN none
        ELSE LET d == decodeSdkDep(ModuleContext(NoString, r.errors), cfg, decl)
                 sdk == d.sdkDep
                 missing == IF sdk.invalidVersion
                            THEN sdk.bootclasspath \o sdk.java9Classpath ELSE << >>
                 f == IF ~sdk.invalidVersion /\ sdk.useFiles
                      THEN [r.flags EXCEPT !.classpath = @ \o sdk.jars]
                      ELSE r.flags
             IN  IF d.errors > 0
                 THEN [none EXCEPT !.flags = f, !.errors = d.errors,
                                   !.missingDeps = missing, !.returned = TRUE]
                 ELSE [none EXCEPT !.flags = f, !.missingDeps = missing,
                                   !.dexJarFile = DexJarPath(n),
                                   !.dexJarInstallFile = InstallPath(n)]

\* Mutant: the two transitive sets are published under each other's name.
ImportJavaInfo_swapsTransitiveSets(n, j) ==
    [provided |-> TRUE,
     HeaderJars |-> <<CombinedClasspathFile(n)>>,
     TransitiveLibsHeaderJars |-> j.transitiveStaticLibsHeaderJars,
     TransitiveStaticLibsHeaderJars |-> j.transitiveLibsHeaderJars]

\* ctx.SetProvider(JavaInfoProvider, JavaInfo{...}) of Import; j holds
\* j.transitiveLibsHeaderJars and j.transitiveStaticLibsHeaderJars.
ImportJavaInfo(n, j) ==
    [provided |-> TRUE,
     HeaderJars |-> <<CombinedClasspathFile(n)>>,
     TransitiveLibsHeaderJars |-> j.transitiveLibsHeaderJars,
     TransitiveStaticLibsHeaderJars |-> j.transitiveStaticLibsHeaderJars]

\* Mutant: JavaInfo is set before the dex jar is dealt with, so an early
\* return comes too late to keep it back.
ImportOutputs_publishesBeforeDex(n, decl, cfg, edges, pub) ==
    LET r == ImportBuild(edges, pub)
        x == ImportDex(n, decl, cfg, r)
        j == collectTransitiveHeaderJars(edges, pub, EmptyTransitive)
    IN  [clc |-> r.clc, flags |-> x.flags, errors |-> x.errors,
         missingDeps |-> x.missingDeps,
         dexJarFile |-> x.dexJarFile, dexJarInstallFile |-> x.dexJarInstallFile,
         info |-> ImportJavaInfo(n, j)]

\* Everything Import.GenerateAndroidBuildActions leaves behind for module n
\* with these edges: its fields, the errors and missing dependencies of ctx
\* and the JavaInfo it sets (NoInfo after an early return).
ImportOutputs(n, decl, cfg, edges, pub) ==
    LET r == ImportBuild(edges, pub)
        x == ImportDex(n, decl, cfg, r)
        j == collectTransitiveHeaderJars(edges, pub, EmptyTransitive)
    IN  [clc |-> r.clc, flags |-> x.flags, errors |-> x.errors,
         missingDeps |-> x.missingDeps,
         dexJarFile |-> x.dexJarFile, dexJarInstallFile |-> x.dexJarInstallFile,
         info |-> IF x.returned THEN NoInfo ELSE ImportJavaInfo(n, j)]

\* The sequence in reverse order.
Reverse(seq) == [i \in 1 .. Len(seq) |-> seq[Len(seq) + 1 - i]]

\* Mutant: the merged map is also written into the first dependency's map.
ImportGenerateAndroidBuildActions_writesDep(n) ==
    /\ module[n].moduleType = "java_import"
    /\ Ready(n)
    /\ LET o == ImportOutputs(n, module[n], config, deps[n], Published)
       IN  /\ classLoaderContexts' =
                IF deps[n] = << >>
                THEN [classLoaderContexts EXCEPT ![n] = o.clc]
                ELSE [classLoaderContexts EXCEPT ![n] = o.clc, ![deps[n][1].dep] = o.clc]
           /\ flags' = [flags EXCEPT ![n] = o.flags]
           /\ errors' = [errors EXCEPT ![n] = o.errors]
           /\ missingDeps' = [missingDeps EXCEPT ![n] = o.missingDeps]
           /\ dexJarFile' = [dexJarFile EXCEPT ![n] = o.dexJarFile]
           /\ dexJarInstallFile' = [dexJarInstallFile EXCEPT ![n] = o.dexJarInstallFile]
           /\ javaInfo' = [javaInfo EXCEPT ![n] = o.info]
    /\ generated' = generated \cup {n}
    /\ UNCHANGED <<module, deps, proguardSpecInfo, javaApiImportInfo, config, panicked, tagVars, sdkVars, callVars>>

\* Mutant: the direct dependencies are visited in an unspecified order.
ImportGenerateAndroidBuildActions_anyOrder(n) ==
    /\ module[n].moduleType = "java_import"
    /\ Ready(n)
    /\ \E edges \in {deps[n], Reverse(deps[n])} :
         LET o == ImportOutputs(n, module[n], config, edges, Published)
         IN  /\ classLoaderContexts' = [classLoaderContexts EXCEPT ![n] = o.clc]
             /\ flags' = [flags EXCEPT ![n] = o.flags]
             /\ errors' = [errors EXCEPT ![n] = o.errors]
             /\ missingDeps' = [missingDeps EXCEPT ![n] = o.missingDeps]
             /\ dexJarFile' = [dexJarFile EXCEPT ![n] = o.dexJarFile]
             /\ dexJarInstallFile' = [dexJarInstallFile EXCEPT ![n] = o.dexJarInstallFile]
             /\ javaInfo' = [javaInfo EXCEPT ![n] = o.info]
    /\ generated' = generated \cup {n}
    /\ UNCHANGED <<module, deps, proguardSpecInfo, javaApiImportInfo, config, panicked, tagVars, sdkVars, callVars>>

\* func (j *Import) GenerateAndroidBuildActions(ctx)
ImportGenerateAndroidBuildActions(n) ==
    /\ module[n].moduleType = "java_import"
    /\ Ready(n)
    /\ LET o == ImportOutputs(n, module[n], config, deps[n], Published)
       IN  /\ classLoaderContexts' = [classLoaderContexts EXCEPT ![n] = o.clc]
           /\ flags' = [flags EXCEPT ![n] = o.flags]
           /\ errors' = [errors EXCEPT ![n] = o.errors]
           /\ missingDeps' = [missingDeps EXCEPT ![n] = o.missingDeps]
           /\ dexJarFile' = [dexJarFile EXCEPT ![n] = o.dexJarFile]
           /\ dexJarInstallFile' = [dexJarInstallFile EXCEPT ![n] = o.dexJarInstallFile]
           /\ javaInfo' = [javaInfo EXCEPT ![n] = o.info]
    /\ generated' = generated \cup {n}
    /\ UNCHANGED <<module, deps, proguardSpecInfo, javaApiImportInfo, config, panicked, tagVars, sdkVars, callVars>>

\* ----------------------------------------- Library.GenerateAndroidBuildActions

\* The library name a dependency is known by to the class loader, NoString if
\* it is no class-loader-visible library.
UsesLibName(depModule) ==
    IF depModule.isSdkLibraryDependency /\ depModule.sharedLibrary
    THEN RemoveOptionalPrebuiltPrefix(depModule.name)
    ELSE IF depModule.isProvidesUsesLib THEN depModule.providesUsesLib
    ELSE NoString

RECURSIVE classLoaderContextForUsesLibDeps(_, _, _)
\* j.usesLibrary.classLoaderContextForUsesLibDeps(ctx): one entry per
\* uses-library edge to a class-loader-visible library, in the bucket and with
\* the optional flag of the edge's tag.
classLoaderContextForUsesLibDeps(edges, pub, clcMap) ==
    IF edges = << >> THEN clcMap
    ELSE LET tag == Head(edges).tag
             dep == pub[Head(edges).dep].view
         IN  classLoaderContextForUsesLibDeps(Tail(edges), pub,
                IF /\ IsUsesLibraryDependencyTag(tag)
                   /\ dep.isUsesLibraryDependency
                   /\ UsesLibName(dep) # NoString
                THEN AddContext(clcMap, tag.sdkVersion, UsesLibName(dep), tag.optional,
                                dep.DexJarBuildPath, dep.DexJarInstallPath,
                                dep.ClassLoaderContexts)
                ELSE clcMap)

\* android.Path.Ext() of a file given as base name and extension.
Ext(f) == f[2]

RECURSIVE checkProducesJars(_, _)
\* func checkProducesJars(ctx, dep): the errors of ctx after one ModuleErrorf
\* for every file of srcs (dep.Srcs()) that does not end in .jar.
checkProducesJars(ctx, srcs) ==
    IF srcs = << >> THEN ctx.errors
    ELSE checkProducesJars(
            [ctx EXCEPT !.errors = IF Ext(Head(srcs)) # ".jar" THEN @ + 1 ELSE @],
            Tail(srcs))

RECURSIVE compile(_, _, _)
\* j.compile(ctx, ...): the pass over the direct dependencies that validates
\* a libs or static_libs dependency that only produces files and extends
\* j.classLoaderContexts with addCLCFromDep, edge by edge.
compile(edges, pub, acc) ==
    IF edges = << >> THEN acc
    ELSE LET tag == Head(edges).tag
             other == pub[Head(edges).dep]
             errs == IF /\ ~other.info.provided
                        /\ other.view.isSourceFileProducer
                        /\ tag \in {libTag, staticLibTag}
                     THEN checkProducesJars(ModuleContext(tag, acc.errors), other.view.Srcs)
                     ELSE acc.errors
             r == addCLCFromDep(ModuleContext(tag, errs), other.view, acc.clc)
         IN  compile(Tail(edges), pub, [clc |-> r.clcMap, errors |-> r.errors])

\* The class loader contexts and errors Library.GenerateAndroidBuildActions
\* ends with for a module with these edges.
LibraryBuild(edges, pub) ==
    compile(edges, pub,
        [clc |-> classLoaderContextForUsesLibDeps(edges, pub, EmptyCLC), errors |-> 0])

\* The JavaInfo j.compile sets as provider.
LibraryJavaInfo(n, j) ==
    [provided |-> TRUE,
     HeaderJars |-> <<HeaderJar(n)>>,
     TransitiveLibsHeaderJars |-> j.transitiveLibsHeaderJars,
     TransitiveStaticLibsHeaderJars |-> j.transitiveStaticLibsHeaderJars]

\* j.dexProperties.Optimize.Proguard_flags_files of module n
ProguardFlagsFile(n) == <<n, "proguard.flags">>

EmptyProguard == [flags |-> << >>, unconditional |-> << >>]

RECURSIVE VisitProguardSpecInfo(_, _, _)
\* The pass of collectProguardSpecInfo over the direct dependencies that
\* publish a ProguardSpecInfo: a libs or static_libs dependency hands on its
\* unconditionally exported flags files, a static_libs dependency also all of
\* its ProguardFlagsFiles.
VisitProguardSpecInfo(edges, pub, acc) ==
    IF edges = << >> THEN acc
    ELSE LET tag == Head(edges).tag
             dep == pub[Head(edges).dep].proguard
             a1 == IF dep.provided /\ (IsLibDepTag(tag) \/ tag = staticLibTag)
                   THEN [acc EXCEPT
                           !.unconditional = @ \o dep.UnconditionallyExportedProguardFlags,
                           !.flags = @ \o dep.UnconditionallyExportedProguardFlags]
                   ELSE acc
             a2 == IF dep.provided /\ tag = staticLibTag
                   THEN [a1 EXCEPT !.flags = @ \o dep.ProguardFlagsFiles]
                   ELSE a1
         IN  VisitProguardSpecInfo(Tail(edges), pub, a2)

\* Mutant: the flags of a libs dependency that does not export them are taken.
collectProguardSpecInfo_ignoresExportFlag(n, decl, edges, pub) ==
    LET own == <<ProguardFlagsFile(n)>>
        t == VisitProguardSpecInfo(edges, pub, EmptyProguard)
    IN  [provided |-> TRUE,
         Export_proguard_flags_files |-> decl.export_proguard_flags_files,
         ProguardFlagsFiles |-> NewDepSet(own, t.flags),
         UnconditionallyExportedProguardFlags |-> NewDepSet(own, t.unconditional)]

\* Mutant: the unconditionally exported flags of the dependencies are not
\* handed on.
collectProguardSpecInfo_stopsAtSharedEdge(n, decl, edges, pub) ==
    LET own == <<ProguardFlagsFile(n)>>
        t == VisitProguardSpecInfo(edges, pub, EmptyProguard)
    IN  [provided |-> TRUE,
         Export_proguard_flags_files |-> decl.export_proguard_flags_files,
         ProguardFlagsFiles |-> NewDepSet(own, t.flags),
         UnconditionallyExportedProguardFlags |->
             NewDepSet(IF decl.export_proguard_flags_files THEN own ELSE << >>, << >>)]

\* j.collectProguardSpecInfo(ctx), as the fields of ProguardSpecInfo document
\* it: ProguardFlagsFiles holds the module's flags files, those of all
\* transitive static dependencies and those of transitive libs dependencies
\* that export theirs; UnconditionallyExportedProguardFlags holds the flags
\* files the module and its dependencies export across libs edges.
collectProguardSpecInfo(n, decl, edges, pub) ==
    LET own == <<ProguardFlagsFile(n)>>
        t == VisitProguardSpecInfo(edges, pub, EmptyProguard)
    IN  [provided |-> TRUE,
         Export_proguard_flags_files |-> decl.export_proguard_flags_files,
         ProguardFlagsFiles |-> NewDepSet(own, t.flags),
         UnconditionallyExportedProguardFlags |->
             NewDepSet(IF decl.export_proguard_flags_files THEN own ELSE << >>,
                       t.unconditional)]

\* func (j *Library) GenerateAndroidBuildActions(ctx), device variant
LibraryGenerateAndroidBuildActions(n) ==
    /\ IsLibraryType(n)
    /\ Ready(n)
    /\ LET r == LibraryBuild(deps[n], Published)
           j == collectTransitiveHeaderJars(deps[n], Published, EmptyTransitive)
       IN  /\ classLoaderContexts' = [classLoaderContexts EXCEPT ![n] = r.clc]
           /\ errors' = [errors EXCEPT ![n] = r.errors]
           /\ javaInfo' = [javaInfo EXCEPT ![n] = LibraryJavaInfo(n, j)]
    /\ dexJarFile' = [dexJarFile EXCEPT ![n] = DexJarFileOf(module[n], n)]
    /\ dexJarInstallFile' = [dexJarInstallFile EXCEPT ![n] = DexJarInstallFileOf(module[n], n)]
    /\ proguardSpecInfo' = [proguardSpecInfo EXCEPT ![n] =
            collectProguardSpecInfo(n, module[n], deps[n], Published)]
    /\ generated' = generated \cup {n}
    /\ UNCHANGED <<module, deps, flags, missingDeps, javaApiImportInfo, config, panicked,
                   tagVars, sdkVars, callVars>>

\* GenerateAndroidBuildActions of the module types defined outside java.go
\* (java_genrule, java_sdk_library_import): no JavaInfo, no class loader context.
OtherGenerateAndroidBuildActions(n) ==
    /\ module[n].moduleType \in {"java_genrule", "java_sdk_library_import"}
    /\ Ready(n)
    /\ dexJarFile' = [dexJarFile EXCEPT ![n] = DexJarFileOf(module[n], n)]
    /\ dexJarInstallFile' = [dexJarInstallFile EXCEPT ![n] = DexJarInstallFileOf(module[n], n)]
    /\ generated' = generated \cup {n}
    /\ UNCHANGED <<module, deps, classLoaderContexts, javaInfo, flags, errors, missingDeps,
                   proguardSpecInfo, javaApiImportInfo, config, panicked, tagVars, sdkVars, callVars>>

\* ------------------- JavaApiContribution / ApiLibrary.GenerateAndroidBuildActions

\* func (ap *JavaApiContribution) GenerateAndroidBuildActions(ctx): the api
\* file is nil (NoPath) when the api_file property is not set.
ApiContributionGenerateAndroidBuildActions(n) ==
    /\ module[n].moduleType = "java_api_contribution"
    /\ Ready(n)
    /\ javaApiImportInfo' = [javaApiImportInfo EXCEPT ![n] =
            [provided |-> TRUE,
             ApiFile |-> IF module[n].api_file = NoString THEN NoPath
                         ELSE <<n, module[n].api_file[1]>>]]
    /\ generated' = generated \cup {n}
    /\ UNCHANGED <<module, deps, classLoaderContexts, dexJarFile, dexJarInstallFile, javaInfo,
                   flags, errors, missingDeps, proguardSpecInfo, config, panicked,
                   tagVars, sdkVars, callVars>>

\* ctx.OtherModuleProvider(dep, JavaApiImportProvider).(JavaApiImportInfo).ApiFile:
\* the zero value, a nil path, if the dependency set no such provider.
ApiFileOf(other) == IF other.apiImport.provided THEN other.apiImport.ApiFile ELSE NoPath

\* ctx.OtherModuleProvider(dep, JavaInfoProvider).(JavaInfo).HeaderJars
HeaderJarsOf(other) == IF other.info.provided THEN other.info.HeaderJars ELSE << >>

\* One call of the ctx.VisitDirectDeps callback of
\* ApiLibrary.GenerateAndroidBuildActions.  A nil api file is reported unless
\* missing dependencies are allowed, and then dereferenced all the same by
\* providerApiFile.String(), which panics; so does provider.HeaderJars[0] on a
\* dependency without header jars.
ApiLibraryVisitDep(acc, edge, other, cfg) ==
    IF acc.panicked THEN acc
    ELSE IF edge.tag = javaApiContributionTag
    THEN LET providerApiFile == ApiFileOf(other)
             errs == IF providerApiFile = NoPath /\ ~cfg.AllowMissingDependencies
                     THEN acc.errors + 1 ELSE acc.errors
         IN  IF providerApiFile = NoPath
             THEN [acc EXCEPT !.errors = errs, !.panicked = TRUE]
             ELSE [acc EXCEPT !.errors = errs, !.srcFiles = Append(@, providerApiFile)]
    ELSE IF edge.tag = libTag
    THEN [acc EXCEPT !.classPaths = @ \o HeaderJarsOf(other)]
    ELSE IF edge.tag = staticLibTag
    THEN [acc EXCEPT !.staticLibs = @ \o HeaderJarsOf(other)]
    ELSE IF edge.tag = depApiSrcsTag
    THEN IF HeaderJarsOf(other) = << >>
         THEN [acc EXCEPT !.panicked = TRUE]
         ELSE [acc EXCEPT !.depApiSrcsStubsJar = HeaderJarsOf(other)[1]]
    ELSE acc

RECURSIVE ApiLibraryVisitDirectDeps(_, _, _, _)
ApiLibraryVisitDirectDeps(edges, pub, cfg, acc) ==
    IF edges = << >> THEN acc
    ELSE ApiLibraryVisitDirectDeps(Tail(edges), pub, cfg,
            ApiLibraryVisitDep(acc, Head(edges), pub[Head(edges).dep], cfg))

\* allApiScopes: the api file names from the narrowest to the widest scope.
scopeOrderedSourceFileNames ==
    <<"current.txt", "system-current.txt", "test-current.txt", "module-lib-current.txt",
      "system-server-current.txt">>

\* android.Path.Base() of a file given as directory and base name.
Base(f) == f[2]

RECURSIVE SortByScope(_, _)
\* The loop of sortApiFilesByApiScope over the scope file names.
SortByScope(names, srcFiles) ==
    IF names = << >> THEN << >>
    ELSE LET IsScope(f) == Base(f) = Head(names)
         IN  SelectSeq(srcFiles, IsScope) \o SortByScope(Tail(names), srcFiles)

\* Mutant: the recognized files are kept in the order they came in.
sortApiFilesByApiScope_unsorted(ctx, srcFiles) ==
    LET Recognized(f) == \E i \in DOMAIN scopeOrderedSourceFileNames :
                             Base(f) = scopeOrderedSourceFileNames[i]
        sortedSrcFiles == SelectSeq(srcFiles, Recognized)
    IN  [srcFiles |-> sortedSrcFiles,
         errors |-> IF Len(srcFiles) # Len(sortedSrcFiles)
                    THEN ctx.errors + 1 ELSE ctx.errors]

\* func (al *ApiLibrary) sortApiFilesByApiScope(ctx, srcFiles): the sorted
\* files and the errors of ctx afterwards.
sortApiFilesByApiScope(ctx, srcFiles) ==
    LET sortedSrcFiles == SortByScope(scopeOrderedSourceFileNames, srcFiles)
    IN  [srcFiles |-> sortedSrcFiles,
         errors |-> IF Len(srcFiles) # Len(sortedSrcFiles)
                    THEN ctx.errors + 1 ELSE ctx.errors]

StubsJar(n) == <<n, "stubs.jar">>

\* Everything ApiLibrary.GenerateAndroidBuildActions leaves behind for module n.
ApiLibraryOutputs(n, cfg, edges, pub) ==
    LET v == ApiLibraryVisitDirectDeps(edges, pub, cfg,
                [srcFiles |-> << >>, classPaths |-> << >>, staticLibs |-> << >>,
                 depApiSrcsStubsJar |-> NoPath, errors |-> 0, panicked |-> FALSE])
        e1 == IF v.srcFiles = << >> /\ ~cfg.AllowMissingDependencies
              THEN v.errors + 1 ELSE v.errors
        sorted == sortApiFilesByApiScope(ModuleContext(NoString, e1), v.srcFiles)
    IN  IF v.panicked
        THEN [panicked |-> TRUE, errors |-> v.errors]
        ELSE [panicked |-> FALSE, errors |-> sorted.errors, srcFiles |-> sorted.srcFiles,
              flags |-> [EmptyFlags EXCEPT !.classpath =
                            IF v.depApiSrcsStubsJar = NoPath THEN v.classPaths ELSE << >>],
              info |-> [provided |-> TRUE, HeaderJars |-> <<StubsJar(n)>>,
                        TransitiveLibsHeaderJars |-> << >>,
                        TransitiveStaticLibsHeaderJars |-> << >>]]

\* func (al *ApiLibrary) GenerateAndroidBuildActions(ctx): a panic leaves the
\* module unfinished, with the errors reported before it.
ApiLibraryGenerateAndroidBuildActions(n) ==
    /\ module[n].moduleType = "java_api_library"
    /\ Ready(n)
    /\ LET o == ApiLibraryOutputs(n, config, deps[n], Published)
       IN  IF o.panicked
           THEN /\ panicked' = panicked \cup {n}
                /\ errors' = [errors EXCEPT ![n] = o.errors]
                /\ UNCHANGED <<generated, flags, javaInfo, dexJarFile, dexJarInstallFile>>
           ELSE /\ errors' = [errors EXCEPT ![n] = o.errors]
                /\ flags' = [flags EXCEPT ![n] = o.flags]
                /\ javaInfo' = [javaInfo EXCEPT ![n] = o.info]
                /\ dexJarFile' = [dexJarFile EXCEPT ![n] = DexJarPath(n)]
                /\ dexJarInstallFile' = [dexJarInstallFile EXCEPT ![n] = DexJarPath(n)]
                /\ generated' = generated \cup {n}
                /\ UNCHANGED panicked
    /\ UNCHANGED <<module, deps, classLoaderContexts, missingDeps, proguardSpecInfo,
                   javaApiImportInfo, config, tagVars, sdkVars, callVars>>

\* ------------------------------------------------------------- DepsMutator

\* ctx.AddVariationDependencies(nil, tag, name) in a DepsMutator: the mutators
\* run before any GenerateAndroidBuildActions; uses-library edges come from
\* j.usesLibrary.deps, which only Library.DepsMutator calls, api contribution
\* edges from ApiLibrary.DepsMutator.
AddVariationDependencies(n, tag, m) ==
    /\ generated = {}
    /\ SumLen(deps, Modules) < MaxEdges
    /\ m < n
    /\ module[n].moduleType \in {"java_import", "java_library", "java_sdk_library",
                                 "java_api_library"}
    /\ IsUsesLibraryDependencyTag(tag) => IsLibraryType(n)
    /\ tag \in {javaApiContributionTag, depApiSrcsTag} =>
          module[n].moduleType = "java_api_library"
    /\ deps' = [deps EXCEPT ![n] = Append(@, [tag |-> tag, dep |-> m])]
    /\ UNCHANGED <<module, generated, classLoaderContexts, dexJarFile, dexJarInstallFile,
                   javaInfo, flags, errors, missingDeps, proguardSpecInfo, javaApiImportInfo,
                   config, panicked, tagVars, sdkVars, callVars>>

\* ------------------------------------------------------------ SDK resolver

\* ctx.Config() of an ordinary build: missing dependencies are not allowed.
DefaultConfig == [AllowMissingDependencies |-> FALSE]

\* Largest Java language level javac is run for.
MaxJavaVersion == 17

\* Mutant: level 9 still counts as a level without system modules.
usesJavaModules_after9(v) == v > 9

\* func (v javaVersion) usesJavaModules() bool
usesJavaModules(v) == v >= 9

\* func (s sdkDep) hasStandardLibs() bool
hasStandardLibs(s) == ~s.noStandardLibs

\* Mutant: the framework libraries do not need the standard libraries.
hasFrameworkLibs_withoutStandardLibs(s) == ~s.noFrameworksLibs

\* func (s sdkDep) hasFrameworkLibs() bool
hasFrameworkLibs(s) == ~s.noStandardLibs /\ ~s.noFrameworksLibs

\* config.LegacyCorePlatformBootclasspathLibraries, config.FrameworkLibraries
LegacyCorePlatformBootclasspathLibraries == <<"legacy.core.platform.api.stubs", "core-lambda-stubs">>
FrameworkLibraries == <<"ext", "framework">>

\* ctx.AddVariationDependencies(nil, tag, names...) as the edges it adds.
Tagged(tag, names) == [i \in 1 .. Len(names) |-> [tag |-> tag, name |-> names[i]]]

\* Mutant: the system modules dependency is added for a module SDK only.
sdkDeps_systemModulesOfModuleSdk(sdkDep, optimize) ==
    IF sdkDep.useModule
    THEN Tagged(bootClasspathTag, sdkDep.bootclasspath)
         \o Tagged(java9LibTag, sdkDep.java9Classpath)
         \o Tagged(sdkLibTag, sdkDep.classpath)
         \o (IF optimize /\ hasStandardLibs(sdkDep)
             THEN Tagged(proguardRaiseTag, LegacyCorePlatformBootclasspathLibraries)
             ELSE << >>)
         \o (IF optimize /\ hasFrameworkLibs(sdkDep)
             THEN Tagged(proguardRaiseTag, FrameworkLibraries)
             ELSE << >>)
         \o (IF sdkDep.systemModules # ""
             THEN Tagged(systemModulesTag, <<sdkDep.systemModules>>)
             ELSE << >>)
    ELSE << >>

\* func sdkDeps(ctx, sdkContext, d): the dependencies added for sdkDep, in
\* order; optimize is d.effectiveOptimizeEnabled().
sdkDeps(sdkDep, optimize) ==
    (IF sdkDep.useModule
     THEN Tagged(bootClasspathTag, sdkDep.bootclasspath)
          \o Tagged(java9LibTag, sdkDep.java9Classpath)
          \o Tagged(sdkLibTag, sdkDep.classpath)
          \o (IF optimize /\ hasStandardLibs(sdkDep)
              THEN Tagged(proguardRaiseTag, LegacyCorePlatformBootclasspathLibraries)
              ELSE << >>)
          \o (IF optimize /\ hasFrameworkLibs(sdkDep)
              THEN Tagged(proguardRaiseTag, FrameworkLibraries)
              ELSE << >>)
     ELSE << >>)
    \o (IF sdkDep.systemModules # ""
        THEN Tagged(systemModulesTag, <<sdkDep.systemModules>>)
        ELSE << >>)

\* The boot classpath javac is given for language level v: system modules and
\* the java9Classpath modules in front of the classpath from level 9 on, the
\* legacy bootclasspath below.
javacBootClasspath(v, sdkDep) ==
    IF usesJavaModules(v)
    THEN [usesJavaModules |-> TRUE, systemModules |-> sdkDep.systemModules,
          bootclasspath |-> << >>,
          classpath |-> sdkDep.java9Classpath \o sdkDep.classpath]
    ELSE [usesJavaModules |-> FALSE, systemModules |-> "",
          bootclasspath |-> sdkDep.bootclasspath,
          classpath |-> sdkDep.classpath]

\* The sdk_version values of the model: a module SDK, no SDK, a prebuilt SDK
\* and an SDK that cannot be resolved.
SdkVersionStrings == {"current", "none", "30", "missing"}

\* The descriptors sdkDeps is tried on besides those of SdkVersionStrings:
\* decodeSdkDep is not in this file, so every combination of the fields
\* sdkDeps reads is one it may be handed.
SdkDepDescriptors ==
    {[EmptySdkDep EXCEPT !.useModule = u, !.noStandardLibs = s, !.noFrameworksLibs = f,
                         !.systemModules = m, !.bootclasspath = b,
                         !.java9Classpath = j9, !.classpath = c] :
        u \in BOOLEAN, s \in BOOLEAN, f \in BOOLEAN,
        m \in {"", "core-current-stubs-system-modules"},
        b \in {<< >>, <<"core.current.stubs">>},
        j9 \in {<< >>, <<"android_system_stubs_current">>},
        c \in {<< >>, <<"android_system_stubs_current">>}}

\* The sdkDep of the SDK context ctx under configuration cfg: the descriptor
\* the context was given, if any, else the one decoded from its sdk_version.
SdkDepOf(cfg, ctx) ==
    IF ctx.sdk_version = ""
    THEN ctx.sdkDep
    ELSE decodeSdkDep(ModuleContext(NoString, 0), cfg, ctx).sdkDep

\* A module of the current SDK whose DepsMutator has run, before any language
\* level is chosen (JAVA_VERSION_UNSUPPORTED).
InitSdk ==
    /\ javaVersion = 0
    /\ sdkContext = [sdk_version |-> "current", optimize |-> FALSE]
    /\ sdkEdges = sdkDeps(SdkDepOf(DefaultConfig, sdkContext), FALSE)
    /\ javac = javacBootClasspath(0, SdkDepOf(DefaultConfig, sdkContext))

\* sdkDeps runs in the DepsMutator of a module with this SDK context.
SdkDepsMutator(sv, opt) ==
    /\ sdkContext' = [sdk_version |-> sv, optimize |-> opt]
    /\ sdkEdges' = sdkDeps(SdkDepOf(config, sdkContext'), opt)
    /\ javac' = javacBootClasspath(javaVersion, SdkDepOf(config, sdkContext'))
    /\ UNCHANGED <<javaVersion, graphVars, tagVars, callVars>>

\* sdkDeps runs for a module whose SDK context decodes to descriptor d.
SdkDepsOnDescriptor(d, opt) ==
    /\ sdkContext' = [sdk_version |-> "", optimize |-> opt, sdkDep |-> d]
    /\ sdkEdges' = sdkDeps(d, opt)
    /\ javac' = javacBootClasspath(javaVersion, d)
    /\ UNCHANGED <<javaVersion, graphVars, tagVars, callVars>>

\* getJavaVersion gives language level v and javac is set up for it.
GetJavaVersion(v) ==
    /\ javaVersion' = v
    /\ javac' = javacBootClasspath(v, SdkDepOf(config, sdkContext))
    /\ UNCHANGED <<sdkContext, sdkEdges, graphVars, tagVars, callVars>>

\* ------------------------------------------------- TestHost device binaries

\* hostTestProperties with no data_device_bins_* property set.
NoDataDeviceBins ==
    [Data_device_bins_first |-> << >>, Data_device_bins_both |-> << >>,
     Data_device_bins_64 |-> << >>, Data_device_bins_prefer32 |-> << >>,
     Data_device_bins_32 |-> << >>]

\* ctx.AddFarVariationDependencies(variations, tag, names...): one edge per
\* name, in the variant of the named target ("first" is that of
\* Config().AndroidFirstDeviceTarget).
AddFarVariationDependencies(variations, tag, names) ==
    [i \in 1 .. Len(names) |-> [variations |-> variations, tag |-> tag, name |-> names[i]]]

\* Mutant: data_device_bins_prefer32 takes the 64-bit target first.
addDataDeviceBinsDeps_prefer64(props, targets) ==
    LET has32 == targets.lib32
        has64 == targets.lib64
        start == [deps |-> IF Len(props.Data_device_bins_first) > 0
                           THEN AddFarVariationDependencies("first", dataDeviceBinsTag,
                                                            props.Data_device_bins_first)
                           ELSE << >>,
                  propertyErrors |-> << >>,
                  returned |-> FALSE]
        PropertyErrorf(s, property) ==
            [s EXCEPT !.propertyErrors = Append(@, property), !.returned = TRUE]
        Add(s, variations, names) ==
            [s EXCEPT !.deps = @ \o AddFarVariationDependencies(variations,
                                                                 dataDeviceBinsTag, names)]
        Both(s) ==
            IF s.returned \/ Len(props.Data_device_bins_both) = 0 THEN s
            ELSE IF ~has32 /\ ~has64 THEN PropertyErrorf(s, "data_device_bins_both")
            ELSE LET s32 == IF has32 THEN Add(s, "lib32", props.Data_device_bins_both) ELSE s
                 IN  IF has64 THEN Add(s32, "lib64", props.Data_device_bins_both) ELSE s32
        Prefer32(s) ==
            IF s.returned \/ Len(props.Data_device_bins_prefer32) = 0 THEN s
            ELSE IF has64 THEN Add(s, "lib64", props.Data_device_bins_prefer32)
            ELSE IF ~has32 THEN PropertyErrorf(s, "data_device_bins_prefer32")
            ELSE Add(s, "lib32", props.Data_device_bins_prefer32)
        Only32(s) ==
            IF s.returned \/ Len(props.Data_device_bins_32) = 0 THEN s
            ELSE IF ~has32 THEN PropertyErrorf(s, "data_device_bins_32")
            ELSE Add(s, "lib32", props.Data_device_bins_32)
        Only64(s) ==
            IF s.returned \/ Len(props.Data_device_bins_64) = 0 THEN s
            ELSE IF ~has64 THEN PropertyErrorf(s, "data_device_bins_64")
            ELSE Add(s, "lib64", props.Data_device_bins_64)
        end == Only64(Only32(Prefer32(Both(start))))
    IN  [deps |-> end.deps, propertyErrors |-> end.propertyErrors]

\* func (j *TestHost) addDataDeviceBinsDeps(ctx): the edges added and the
\* property errors reported, given the properties and whether Config().Targets
\* has a lib32 and a lib64 Android target. A PropertyErrorf is followed by
\* return.
addDataDeviceBinsDeps(props, targets) ==
    LET has32 == targets.lib32
        has64 == targets.lib64
        start == [deps |-> IF Len(props.Data_device_bins_first) > 0
                           THEN AddFarVariationDependencies("first", dataDeviceBinsTag,
                                                            props.Data_device_bins_first)
                           ELSE << >>,
                  propertyErrors |-> << >>,
                  returned |-> FALSE]
        PropertyErrorf(s, property) ==
            [s EXCEPT !.propertyErrors = Append(@, property), !.returned = TRUE]
        Add(s, variations, names) ==
            [s EXCEPT !.deps = @ \o AddFarVariationDependencies(variations,
                                                                 dataDeviceBinsTag, names)]
        Both(s) ==
            IF s.returned \/ Len(props.Data_device_bins_both) = 0 THEN s
            ELSE IF ~has32 /\ ~has64 THEN PropertyErrorf(s, "data_device_bins_both")
            ELSE LET s32 == IF has32 THEN Add(s, "lib32", props.Data_device_bins_both) ELSE s
                 IN  IF has64 THEN Add(s32, "lib64", props.Data_device_bins_both) ELSE s32
        Prefer32(s) ==
            IF s.returned \/ Len(props.Data_device_bins_prefer32) = 0 THEN s
            ELSE IF has32 THEN Add(s, "lib32", props.Data_device_bins_prefer32)
            ELSE IF ~has64 THEN PropertyErrorf(s, "data_device_bins_prefer32")
            ELSE Add(s, "lib64", props.Data_device_bins_prefer32)
        Only32(s) ==
            IF s.returned \/ Len(props.Data_device_bins_32) = 0 THEN s
            ELSE IF ~has32 THEN PropertyErrorf(s, "data_device_bins_32")
            ELSE Add(s, "lib32", props.Data_device_bins_32)
        Only64(s) ==
            IF s.returned \/ Len(props.Data_device_bins_64) = 0 THEN s
            ELSE IF ~has64 THEN PropertyErrorf(s, "data_device_bins_64")
            ELSE Add(s, "lib64", props.Data_device_bins_64)
        end == Only64(Only32(Prefer32(Both(start))))
    IN  [deps |-> end.deps, propertyErrors |-> end.propertyErrors]

\* ---------------------------------------------------------- javaVersion

\* const ( JAVA_VERSION_... ) of type javaVersion.
JAVA_VERSION_UNSUPPORTED == 0
JAVA_VERSION_6 == 6
JAVA_VERSION_7 == 7
JAVA_VERSION_8 == 8
JAVA_VERSION_9 == 9
JAVA_VERSION_11 == 11
JAVA_VERSION_17 == 17

\* func (v javaVersion) String() string
String(v) ==
    CASE v = JAVA_VERSION_6 -> "1.6"
      [] v = JAVA_VERSION_7 -> "1.7"
      [] v = JAVA_VERSION_8 -> "1.8"
      [] v = JAVA_VERSION_9 -> "1.9"
      [] v = JAVA_VERSION_11 -> "11"
      [] v = JAVA_VERSION_17 -> "17"
      [] OTHER -> "unsupported"

\* Mutant: the bare spelling "9" is not a language level.
normalizeJavaVersion_noBare9(ctx, javaVersionString) ==
    CASE javaVersionString \in {"1.6", "6"} ->
            [version |-> JAVA_VERSION_6, propertyErrors |-> ctx.propertyErrors]
      [] javaVersionString \in {"1.7", "7"} ->
            [version |-> JAVA_VERSION_7, propertyErrors |-> ctx.propertyErrors]
      [] javaVersionString \in {"1.8", "8"} ->
            [version |-> JAVA_VERSION_8, propertyErrors |-> ctx.propertyErrors]
      [] javaVersionString \in {"1.9"} ->
            [version |-> JAVA_VERSION_9, propertyErrors |-> ctx.propertyErrors]
      [] javaVersionString = "11" ->
            [version |-> JAVA_VERSION_11, propertyErrors |-> ctx.propertyErrors]
      [] javaVersionString = "17" ->
            [version |-> JAVA_VERSION_17, propertyErrors |-> ctx.propertyErrors]
      [] javaVersionString \in {"10", "12", "13", "14", "15", "16"} ->
            [version |-> JAVA_VERSION_UNSUPPORTED,
             propertyErrors |-> Append(ctx.propertyErrors, "java_version")]
      [] OTHER ->
            [version |-> JAVA_VERSION_UNSUPPORTED,
             propertyErrors |-> Append(ctx.propertyErrors, "java_version")]

\* func normalizeJavaVersion(ctx, javaVersion string) javaVersion: the level
\* returned and the property errors of ctx afterwards.
normalizeJavaVersion(ctx, javaVersionString) ==
    CASE javaVersionString \in {"1.6", "6"} ->
            [version |-> JAVA_VERSION_6, propertyErrors |-> ctx.propertyErrors]
      [] javaVersionString \in {"1.7", "7"} ->
            [version |-> JAVA_VERSION_7, propertyErrors |-> ctx.propertyErrors]
      [] javaVersionString \in {"1.8", "8"} ->
            [version |-> JAVA_VERSION_8, propertyErrors |-> ctx.propertyErrors]
      [] javaVersionString \in {"1.9", "9"} ->
            [version |-> JAVA_VERSION_9, propertyErrors |-> ctx.propertyErrors]
      [] javaVersionString = "11" ->
            [version |-> JAVA_VERSION_11, propertyErrors |-> ctx.propertyErrors]
      [] javaVersionString = "17" ->
            [version |-> JAVA_VERSION_17, propertyErrors |-> ctx.propertyErrors]
      [] javaVersionString \in {"10", "12", "13", "14", "15", "16"} ->
            [version |-> JAVA_VERSION_UNSUPPORTED,
             propertyErrors |-> Append(ctx.propertyErrors, "java_version")]
      [] OTHER ->
            [version |-> JAVA_VERSION_UNSUPPORTED,
             propertyErrors |-> Append(ctx.propertyErrors, "java_version")]

\* ------------------------------------------------- functions called alone

\* No api files to sort, and sortApiFilesByApiScope not called.
InitApiFiles ==
    /\ apiFiles = << >>
    /\ sortedApiFiles = [called |-> FALSE, srcFiles |-> << >>, errors |-> 0]

\* A module without data_device_bins_* properties on a build for both device
\* architectures, and addDataDeviceBinsDeps not called.
InitTestHost ==
    /\ testHostProperties = NoDataDeviceBins
    /\ androidTargets = [lib32 |-> TRUE, lib64 |-> TRUE]
    /\ dataDeviceBinsDeps = [called |-> FALSE, deps |-> << >>, propertyErrors |-> << >>]

\* A module without java_version property, and normalizeJavaVersion not called.
InitJavaVersion ==
    /\ java_version = [from |-> << >>, string |-> ""]
    /\ normalized = [called |-> FALSE, version |-> JAVA_VERSION_UNSUPPORTED,
                     propertyErrors |-> << >>]

\* al.sortApiFilesByApiScope(ctx, srcFiles) is called on the api files.
SortApiFilesByApiScope ==
    /\ ~sortedApiFiles.called
    /\ LET r == sortApiFilesByApiScope(ModuleContext(NoString, 0), apiFiles)
       IN  sortedApiFiles' = [called |-> TRUE, srcFiles |-> r.srcFiles, errors |-> r.errors]
    /\ UNCHANGED <<apiFiles, graphVars, tagVars, sdkVars, testHostVars, versionVars>>

\* j.addDataDeviceBinsDeps(ctx) is called on the test's properties.
AddDataDeviceBinsDeps ==
    /\ ~dataDeviceBinsDeps.called
    /\ LET r == addDataDeviceBinsDeps(testHostProperties, androidTargets)
       IN  dataDeviceBinsDeps' = [called |-> TRUE, deps |-> r.deps,
                                  propertyErrors |-> r.propertyErrors]
    /\ UNCHANGED <<testHostProperties, androidTargets, graphVars, tagVars, sdkVars,
                   apiVars, versionVars>>

\* v.String() is taken as the java_version string; from remembers v.
StringOfJavaVersion(v) ==
    /\ ~normalized.called
    /\ java_version.from = << >>
    /\ java_version' = [from |-> <<v>>, string |-> String(v)]
    /\ UNCHANGED <<normalized, graphVars, tagVars, sdkVars, apiVars, testHostVars>>

\* normalizeJavaVersion(ctx, javaVersion) is called on the java_version string.
NormalizeJavaVersion ==
    /\ ~normalized.called
    /\ LET r == normalizeJavaVersion([propertyErrors |-> << >>], java_version.string)
       IN  normalized' = [called |-> TRUE, version |-> r.version,
                          propertyErrors |-> r.propertyErrors]
    /\ UNCHANGED <<java_version, graphVars, tagVars, sdkVars, apiVars, testHostVars>>

InitCalls == InitApiFiles /\ InitTestHost /\ InitJavaVersion

\* ---------------------------------------------------------- specification

NoArgs == << >>

\* Mutant: a toolchain tag is annotated as a shared dependency as well.
LicenseAnnotations_toolchainIsShared(d) ==
    IF d.runtimeLinked THEN <<"LicenseAnnotationSharedDependency">>
    ELSE IF d.toolchain
    THEN <<"LicenseAnnotationSharedDependency", "LicenseAnnotationToolchain">>
    ELSE << >>

\* func (d dependencyTag) LicenseAnnotations() []android.LicenseAnnotation
LicenseAnnotations(d) ==
    IF d.runtimeLinked THEN <<"LicenseAnnotationSharedDependency">>
    ELSE IF d.toolchain THEN <<"LicenseAnnotationToolchain">>
    ELSE << >>

InitGraph ==
    /\ deps = [n \in Modules |-> << >>]
    /\ generated = {}
    /\ classLoaderContexts = [n \in Modules |-> EmptyCLC]
    /\ dexJarFile = [n \in Modules |-> NoPath]
    /\ dexJarInstallFile = [n \in Modules |-> NoPath]
    /\ javaInfo = [n \in Modules |-> NoInfo]
    /\ flags = [n \in Modules |-> EmptyFlags]
    /\ errors = [n \in Modules |-> 0]
    /\ missingDeps = [n \in Modules |-> << >>]
    /\ proguardSpecInfo = [n \in Modules |-> NoInfo]
    /\ javaApiImportInfo = [n \in Modules |-> NoInfo]
    /\ panicked = {}

InitTag ==
    /\ curTag = staticLibTag
    /\ tagArgs = NoArgs
    /\ licenseAnnotations = LicenseAnnotations(staticLibTag)

Init ==
    /\ module \in {f \in [Modules -> LeafDecls \cup MidDecls \cup TopDecls] :
                      \A n \in Modules : f[n] \in Decls(n)}
    /\ config = DefaultConfig
    /\ InitGraph
    /\ InitTag
    /\ InitSdk
    /\ InitCalls

Next ==
    \/ \E n \in Modules, m \in Modules, tag \in EdgeTags : AddVariationDependencies(n, tag, m)
    \/ \E n \in Modules : ImportGenerateAndroidBuildActions(n)
    \/ \E n \in Modules : LibraryGenerateAndroidBuildActions(n)
    \/ \E n \in Modules : OtherGenerateAndroidBuildActions(n)

Spec == Init /\ [][Next]_vars

\* ------------------------------------------- specification of the tag table

\* Largest SDK version a uses-library tag is built with, besides AnySdkVersion.
MaxSdkVersion == 50

SdkVersions == (1 .. MaxSdkVersion) \cup {AnySdkVersion}

\* The var ( ... ) block of predefined dependencyTag values.
PredefinedTags ==
    { dataNativeBinsTag, dataDeviceBinsTag, staticLibTag, libTag, sdkLibTag, java9LibTag,
      pluginTag, errorpronePluginTag, exportedPluginTag, bootClasspathTag, systemModulesTag,
      frameworkResTag, kotlinStdlibTag, kotlinAnnotationsTag, kotlinPluginTag,
      proguardRaiseTag, certificateTag, instrumentationForTag, extraLintCheckTag, jniLibTag,
      r8LibraryJarTag, syspropPublicStubDepTag, javaApiContributionTag, depApiSrcsTag }

\* The predefined uses-library tags of the same block.
PredefinedUsesLibTags ==
    { usesLibReqTag, usesLibOptTag, usesLibCompat28OptTag, usesLibCompat29ReqTag,
      usesLibCompat30OptTag }

\* A predefined tag is looked up and asked for its license annotations.
UsePredefinedTag(t) ==
    /\ curTag' = t
    /\ tagArgs' = NoArgs
    /\ licenseAnnotations' = LicenseAnnotations(BaseTag(t))
    /\ UNCHANGED <<graphVars, sdkVars, callVars>>

\* makeUsesLibraryDependencyTag(sdkVersion, optional) is called.
MakeUsesLibraryDependencyTag(sdkVersion, optional) ==
    /\ curTag' = makeUsesLibraryDependencyTag(sdkVersion, optional)
    /\ tagArgs' = <<sdkVersion, optional>>
    /\ licenseAnnotations' = LicenseAnnotations(curTag'.dependencyTag)
    /\ UNCHANGED <<graphVars, sdkVars, callVars>>

InitTags ==
    /\ module = [n \in Modules |-> CHOOSE d \in Decls(n) : TRUE]
    /\ config = DefaultConfig
    /\ InitGraph
    /\ InitTag
    /\ InitSdk
    /\ InitCalls

NextTags ==
    \/ \E t \in PredefinedTags \cup PredefinedUsesLibTags : UsePredefinedTag(t)
    \/ \E v \in SdkVersions, opt \in BOOLEAN : MakeUsesLibraryDependencyTag(v, opt)

SpecTags == InitTags /\ [][NextTags]_vars

\* ------------------- specification of the classpath and keep-rule aggregation

\* The module declarations of this specification: an SDK library and a library
\* that export their proguard flags files or not, below an import or a library.
ClasspathDecls(n) ==
    IF n = 1
    THEN {[ModuleDecl("java_sdk_library", <<"bar">>, TRUE, NoString, TRUE)
              EXCEPT !.export_proguard_flags_files = e] : e \in BOOLEAN}
    ELSE IF n = 2
    THEN {[ModuleDecl("java_library", <<"foo">>, FALSE, NoString, TRUE)
              EXCEPT !.export_proguard_flags_files = e] : e \in BOOLEAN}
    ELSE TopDecls

\* static_libs, libs and uses_libs edges.
ClasspathEdgeTags == {staticLibTag, libTag, usesLibReqTag}

InitClasspath ==
    /\ module \in {f \in [Modules -> UNION {ClasspathDecls(n) : n \in Modules}] :
                      \A n \in Modules : f[n] \in ClasspathDecls(n)}
    /\ config = DefaultConfig
    /\ InitGraph
    /\ InitTag
    /\ InitSdk
    /\ InitCalls

NextClasspath ==
    \/ \E n \in Modules, m \in Modules, tag \in ClasspathEdgeTags :
          AddVariationDependencies(n, tag, m)
    \/ \E n \in Modules : ImportGenerateAndroidBuildActions(n)
    \/ \E n \in Modules : LibraryGenerateAndroidBuildActions(n)

SpecClasspath == InitClasspath /\ [][NextClasspath]_vars

\* ------------------------------------- specification of the error handling

\* The module declarations of this specification: a file-generating module
\* whose file is a jar or not, an api contribution with or without an api
\* file, or an SDK library; below an import with an sdk_version that cannot be resolved, a
\* library or an import made for a prebuilt_apex, whatever its deapexer
\* offers; below such an import, a library or an api library.
ErrorDecls(n) ==
    IF n = 1
    THEN {[ModuleDecl("java_genrule", <<"gen">>, FALSE, NoString, FALSE)
              EXCEPT !.srcs = <<<<"gen", x>>>>] : x \in {".jar", ".txt"}}
         \cup {[ModuleDecl("java_api_contribution", <<"gen">>, FALSE, NoString, FALSE)
                  EXCEPT !.api_file = f] : f \in {NoString, <<"current.txt">>}}
         \cup {ModuleDecl("java_sdk_library", <<"bar">>, TRUE, NoString, TRUE)}
    ELSE IF n = 2
    THEN {[ModuleDecl("java_import", <<"foo">>, FALSE, NoString, TRUE)
              EXCEPT !.sdk_version = "missing"],
          ModuleDecl("java_library", <<"foo">>, FALSE, NoString, TRUE)}
         \cup {[ModuleDecl("java_import", <<"foo">>, FALSE, NoString, FALSE)
                  EXCEPT !.forPrebuiltApex = TRUE, !.deapexer = x] :
                     x \in {"none", "exports", "noexport"}}
    ELSE {[ModuleDecl("java_import", <<"app">>, FALSE, NoString, TRUE)
              EXCEPT !.sdk_version = "missing"],
          ModuleDecl("java_library", <<"app">>, FALSE, NoString, TRUE),
          ModuleDecl("java_api_library", <<"app">>, FALSE, NoString, TRUE)}

ErrorEdgeTags == {staticLibTag, libTag, javaApiContributionTag}

InitErrors ==
    /\ module \in {f \in [Modules -> UNION {ErrorDecls(n) : n \in Modules}] :
                      \A n \in Modules : f[n] \in ErrorDecls(n)}
    /\ config \in {[AllowMissingDependencies |-> a] : a \in BOOLEAN}
    /\ InitGraph
    /\ InitTag
    /\ InitSdk
    /\ InitCalls

NextErrors ==
    \/ \E n \in Modules, m \in Modules, tag \in ErrorEdgeTags :
          AddVariationDependencies(n, tag, m)
    \/ \E n \in Modules : ImportGenerateAndroidBuildActions(n)
    \/ \E n \in Modules : LibraryGenerateAndroidBuildActions(n)
    \/ \E n \in Modules : OtherGenerateAndroidBuildActions(n)
    \/ \E n \in Modules : ApiContributionGenerateAndroidBuildActions(n)
    \/ \E n \in Modules : ApiLibraryGenerateAndroidBuildActions(n)

SpecErrors == InitErrors /\ [][NextErrors]_vars

\* ---------------------------------------- specification of the SDK resolver

JavaVersions == 0 .. MaxJavaVersion

InitSdkResolver ==
    /\ module = [n \in Modules |-> CHOOSE d \in Decls(n) : TRUE]
    /\ config \in {[AllowMissingDependencies |-> a] : a \in BOOLEAN}
    /\ InitGraph
    /\ InitTag
    /\ InitSdk
    /\ InitCalls

NextSdkResolver ==
    \/ \E sv \in SdkVersionStrings, opt \in BOOLEAN : SdkDepsMutator(sv, opt)
    \/ \E d \in SdkDepDescriptors, opt \in BOOLEAN : SdkDepsOnDescriptor(d, opt)
    \/ \E v \in JavaVersions : GetJavaVersion(v)

SpecSdkResolver == InitSdkResolver /\ [][NextSdkResolver]_vars

\* ------------------------------------- specification of the api file order

\* Largest number of api files sorted at once.
MaxApiFiles == 3

\* The sequences over S of length n at most.
SeqsUpTo(S, n) == UNION {[1 .. k -> S] : k \in 0 .. n}

\* The api files: a directory and a base name, which is that of an api scope
\* or not.
ApiFilePaths ==
    {<<dir, base>> : dir \in {"a", "b"},
                     base \in {"current.txt", "system-current.txt",
                               "module-lib-current.txt", "removed.txt"}}

InitApiFileOrder ==
    /\ module = [n \in Modules |-> CHOOSE d \in Decls(n) : TRUE]
    /\ config = DefaultConfig
    /\ InitGraph
    /\ InitTag
    /\ InitSdk
    /\ apiFiles \in SeqsUpTo(ApiFilePaths, MaxApiFiles)
    /\ sortedApiFiles = [called |-> FALSE, srcFiles |-> << >>, errors |-> 0]
    /\ InitTestHost
    /\ InitJavaVersion

NextApiFileOrder == SortApiFilesByApiScope

SpecApiFileOrder == InitApiFileOrder /\ [][NextApiFileOrder]_vars

\* ------------------------------ specification of the device binaries of a test

\* Largest number of binaries one data_device_bins_* property lists.
MaxDeviceBins == 1

DeviceBinNames == {"bin_a", "bin_b"}

InitTestHostDeps ==
    /\ module = [n \in Modules |-> CHOOSE d \in Decls(n) : TRUE]
    /\ config = DefaultConfig
    /\ InitGraph
    /\ InitTag
    /\ InitSdk
    /\ InitApiFiles
    /\ testHostProperties \in
          [Data_device_bins_first : SeqsUpTo(DeviceBinNames, MaxDeviceBins),
           Data_device_bins_both : SeqsUpTo(DeviceBinNames, MaxDeviceBins),
           Data_device_bins_64 : SeqsUpTo(DeviceBinNames, MaxDeviceBins),
           Data_device_bins_prefer32 : SeqsUpTo(DeviceBinNames, MaxDeviceBins),
           Data_device_bins_32 : SeqsUpTo(DeviceBinNames, MaxDeviceBins)]
    /\ androidTargets \in [lib32 : BOOLEAN, lib64 : BOOLEAN]
    /\ dataDeviceBinsDeps = [called |-> FALSE, deps |-> << >>, propertyErrors |-> << >>]
    /\ InitJavaVersion

NextTestHostDeps == AddDataDeviceBinsDeps

SpecTestHostDeps == InitTestHostDeps /\ [][NextTestHostDeps]_vars

\* ------------------------------------ specification of the java_version levels

\* The java_version strings: every number up to the largest level in both
\* spellings, and some that are no level at all.
JavaVersionStrings ==
    {ToString(n) : n \in JavaVersions} \cup {"1." \o ToString(n) : n \in JavaVersions}
        \cup {"", "unsupported", "1.8.0", "java8"}

InitJavaLevels ==
    /\ module = [n \in Modules |-> CHOOSE d \in Decls(n) : TRUE]
    /\ config = DefaultConfig
    /\ InitGraph
    /\ InitTag
    /\ InitSdk
    /\ InitApiFiles
    /\ InitTestHost
    /\ java_version \in {[from |-> << >>, string |-> s] : s \in JavaVersionStrings}
    /\ normalized = [called |-> FALSE, version |-> JAVA_VERSION_UNSUPPORTED,
                     propertyErrors |-> << >>]

NextJavaLevels ==
    \/ \E v \in JavaVersions : StringOfJavaVersion(v)
    \/ NormalizeJavaVersion

SpecJavaLevels == InitJavaLevels /\ [][NextJavaLevels]_vars

\* ------------------------------------------------------------------ claims

View(m) == OtherModule(m).view

\* The SDK-version bucket of an edge: that of a uses-library tag, the
\* any-version bucket for every other tag.
EdgeBucket(tag) ==
    IF IsUsesLibraryDependencyTag(tag) THEN tag.sdkVersion ELSE AnySdkVersion

\* The edge is a libs/sdklib edge or a non-compatibility uses-library edge.
PropagatingEdge(tag) ==
    \/ tag \in {libTag, sdkLibTag}
    \/ IsUsesLibraryDependencyTag(tag) /\ tag.sdkVersion = AnySdkVersion

\* The dependency d is a class-loader-visible library.
Visible(d) == View(d).isUsesLibraryDependency /\ UsesLibName(View(d)) # NoString

\* The entries of bucket b of clcMap that describe the published library d.
EntriesFor(clcMap, b, d) ==
    {i \in DOMAIN clcMap[b] :
        /\ clcMap[b][i].Name = UsesLibName(View(d))
        /\ clcMap[b][i].Host = dexJarFile[d]
        /\ clcMap[b][i].Device = dexJarInstallFile[d]
        /\ clcMap[b][i].Subcontexts = classLoaderContexts[d]}

NamedEntries(clcMap, b, name) == {i \in DOMAIN clcMap[b] : clcMap[b][i].Name = name}

\* The class loader contexts module n would end with if its edges were these.
BuildCLC(n, edges) ==
    IF module[n].moduleType = "java_import" THEN ImportBuild(edges, Published).clc
    ELSE IF IsLibraryType(n) THEN LibraryBuild(edges, Published).clc
    ELSE EmptyCLC

\* C1: a direct dependency that is a shared SDK library or provides a
\* uses-lib identity, reached over a libs/sdklib edge or a non-compatibility
\* uses-library edge, has exactly one entry in the bucket of the edge, under
\* its library name, with its dex jar build path, its install path and its own
\* published map as the subtree.
C1_SdkLibraryBecomesNode ==
    \A n \in generated : \A i \in DOMAIN deps[n] :
        LET tag == deps[n][i].tag
            d == deps[n][i].dep
        IN  (Visible(d) /\ PropagatingEdge(tag)) =>
                /\ Cardinality(EntriesFor(classLoaderContexts[n], EdgeBucket(tag), d)) = 1
                /\ NamedEntries(classLoaderContexts[n], EdgeBucket(tag), UsesLibName(View(d)))
                      = EntriesFor(classLoaderContexts[n], EdgeBucket(tag), d)

C1_Witness ==
    \E n \in generated : \E i \in DOMAIN deps[n] :
        /\ Visible(deps[n][i].dep)
        /\ deps[n][i].tag = sdkLibTag
        /\ classLoaderContexts[deps[n][i].dep] # EmptyCLC
        /\ dexJarFile[deps[n][i].dep] # NoPath

\* C2: over a static_libs edge to a dependency that is no SDK-surface library
\* every entry of the dependency's map is in the node's map in the same bucket,
\* and the node's map has no entry for the dependency itself.
C2_StaticDepIsFlattened ==
    \A n \in generated : \A i \in DOMAIN deps[n] :
        LET d == deps[n][i].dep
            own == classLoaderContexts[n]
            other == classLoaderContexts[d]
        IN  (deps[n][i].tag = staticLibTag /\ View(d).isUsesLibraryDependency /\ ~Visible(d)) =>
                /\ \A b \in Buckets : \A k \in DOMAIN other[b] :
                      \E j \in DOMAIN own[b] :
                          /\ own[b][j].Name = other[b][k].Name
                          /\ own[b][j].Host = other[b][k].Host
                          /\ own[b][j].Device = other[b][k].Device
                          /\ own[b][j].Subcontexts = other[b][k].Subcontexts
                /\ \A b \in Buckets :
                      NamedEntries(own, b, RemoveOptionalPrebuiltPrefix(View(d).name)) = {}

C2_Witness ==
    \E n \in generated : \E i \in DOMAIN deps[n] :
        /\ deps[n][i].tag = staticLibTag
        /\ View(deps[n][i].dep).isUsesLibraryDependency
        /\ ~Visible(deps[n][i].dep)
        /\ classLoaderContexts[deps[n][i].dep][AnySdkVersion] # << >>

\* The edges C3 is about: toolchain, bootclasspath and system-modules edges,
\* and static_libs edges to an SDK-surface component.
InertEdge(edge) ==
    \/ edge.tag \in {pluginTag, exportedPluginTag, bootClasspathTag, systemModulesTag}
    \/ edge.tag = staticLibTag /\ Visible(edge.dep)

\* C3: toolchain, bootclasspath, system-modules edges and static_libs edges to
\* an SDK-surface component contribute nothing: the node's map is the map it
\* would have without those edges.
C3_InertEdgesLeaveMapUnchanged ==
    \A n \in generated :
        LET Contributes(edge) == ~InertEdge(edge)
        IN  classLoaderContexts[n] = BuildCLC(n, SelectSeq(deps[n], Contributes))

C3_Witness ==
    \E n \in generated : \E i, j \in DOMAIN deps[n] :
        /\ deps[n][i].tag = staticLibTag
        /\ Visible(deps[n][i].dep)
        /\ deps[n][j].tag = libTag
        /\ classLoaderContexts[n] # EmptyCLC

\* The names of the class-loader-visible libraries of the build.
VisibleNames ==
    {UsesLibName(DepView(module[m], EmptyCLC, NoPath, NoPath)) : m \in Modules} \ {NoString}

RECURSIVE OnlyVisibleEntries(_)
\* Every entry of the map, at every depth, names a class-loader-visible library.
OnlyVisibleEntries(clcMap) ==
    \A b \in Buckets : \A i \in DOMAIN clcMap[b] :
        /\ clcMap[b][i].Name \in VisibleNames
        /\ OnlyVisibleEntries(clcMap[b][i].Subcontexts)

\* C4: in every module's map, at every depth, each entry names a shared SDK
\* library or a module with a provides_uses_lib identity.
C4_EntriesAreVisibleLibraries ==
    \A n \in Modules : OnlyVisibleEntries(classLoaderContexts[n])

C4_Witness ==
    \E n \in generated : \E i \in DOMAIN classLoaderContexts[n][AnySdkVersion] :
        /\ classLoaderContexts[n][AnySdkVersion][i].Name = <<"foo.provided">>
        /\ classLoaderContexts[n][AnySdkVersion][i].Subcontexts[AnySdkVersion] # << >>

\* The sequence without its element at position k.
RemoveAt(seq, k) == [i \in 1 .. (Len(seq) - 1) |-> IF i < k THEN seq[i] ELSE seq[i + 1]]

\* The tag of the first uses-library edge of n to d in bucket b.
FirstUsesLibEdge(n, d, b) ==
    LET E == {i \in DOMAIN deps[n] :
                /\ deps[n][i].dep = d
                /\ IsUsesLibraryDependencyTag(deps[n][i].tag)
                /\ deps[n][i].tag.dependencyTag.name = "uses-library-" \o ToString(b)}
    IN  deps[n][CHOOSE i \in E : \A k \in E : i <= k].tag

\* C5: a required any-version uses-library edge and an optional version-28
\* uses-library edge from one module to the same library give one entry in the
\* any-version bucket and one in bucket 28, each with the optional flag of the
\* first uses-library edge of its bucket, and neither bucket depends on the
\* other edge.
C5_BucketsDoNotInterfere ==
    \A n \in generated : \A i, j \in DOMAIN deps[n] :
        LET d == deps[n][i].dep
            own == classLoaderContexts[n]
        IN  (/\ deps[n][i].tag = usesLibReqTag
             /\ deps[n][j].tag = usesLibCompat28OptTag
             /\ deps[n][j].dep = d
             /\ Visible(d)) =>
                /\ Cardinality(EntriesFor(own, AnySdkVersion, d)) = 1
                /\ Cardinality(EntriesFor(own, 28, d)) = 1
                /\ \A k \in EntriesFor(own, AnySdkVersion, d) :
                      own[AnySdkVersion][k].Optional = FirstUsesLibEdge(n, d, AnySdkVersion).optional
                /\ \A k \in EntriesFor(own, 28, d) :
                      own[28][k].Optional = FirstUsesLibEdge(n, d, 28).optional
                /\ BuildCLC(n, RemoveAt(deps[n], j))[AnySdkVersion] = own[AnySdkVersion]
                /\ BuildCLC(n, RemoveAt(deps[n], i))[28] = own[28]

C5_Witness ==
    \E n \in generated : \E i, j \in DOMAIN deps[n] :
        /\ deps[n][i].tag = usesLibReqTag
        /\ deps[n][j].tag = usesLibCompat28OptTag
        /\ deps[n][j].dep = deps[n][i].dep
        /\ Visible(deps[n][i].dep)

\* C6: a required uses-library dependency that is an SDK-surface library
\* without a dex jar still gets its entry, with an absent jar path, and
\* addCLCFromDep reports no error for it.
C6_MissingJarIsRecorded ==
    \A n \in generated : \A i \in DOMAIN deps[n] :
        LET d == deps[n][i].dep
            r == addCLCFromDep(ModuleContext(usesLibReqTag, errors[n]), View(d), EmptyCLC)
        IN  (deps[n][i].tag = usesLibReqTag /\ Visible(d) /\ dexJarFile[d] = NoPath) =>
                /\ \E k \in EntriesFor(classLoaderContexts[n], AnySdkVersion, d) :
                      classLoaderContexts[n][AnySdkVersion][k].Host = NoPath
                /\ Len(r.clcMap[AnySdkVersion]) = 1
                /\ r.clcMap[AnySdkVersion][1].Name = UsesLibName(View(d))
                /\ r.clcMap[AnySdkVersion][1].Host = NoPath
                /\ r.errors = errors[n]

C6_Witness ==
    \E n \in generated : \E i \in DOMAIN deps[n] :
        /\ deps[n][i].tag = usesLibReqTag
        /\ Visible(deps[n][i].dep)
        /\ dexJarFile[deps[n][i].dep] = NoPath
        /\ deps[n][i].dep \in generated

\* C7: a module's outputs are produced once, after those of all its direct
\* dependencies, and no later step changes the published outputs of a module.
C7_PublishedOutputsAreFrozen ==
    [][/\ \A m \in generated :
            /\ m \in generated'
            /\ classLoaderContexts'[m] = classLoaderContexts[m]
            /\ javaInfo'[m] = javaInfo[m]
            /\ dexJarFile'[m] = dexJarFile[m]
            /\ dexJarInstallFile'[m] = dexJarInstallFile[m]
            /\ flags'[m] = flags[m]
       /\ \A n \in generated' \ generated :
            \A i \in DOMAIN deps[n] : deps[n][i].dep \in generated]_vars

C7_Witness ==
    /\ generated = Modules
    /\ \E i \in DOMAIN deps[3] :
          /\ deps[3][i].dep = 2
          /\ deps[3][i].tag = libTag
          /\ classLoaderContexts[2] # EmptyCLC
          /\ classLoaderContexts[3] # EmptyCLC

RECURSIVE ExpectedOutput(_)
\* What module n publishes as a function of the dependency graph alone.
ExpectedOutput(n) ==
    LET ds == {deps[n][i].dep : i \in DOMAIN deps[n]}
        pub == [m \in ds |->
                  LET o == ExpectedOutput(m)
                  IN  [info |-> o.info,
                       proguard |-> o.proguard,
                       view |-> DepView(module[m], o.clc, o.dexJarFile, o.dexJarInstallFile)]]
        j == collectTransitiveHeaderJars(deps[n], pub, EmptyTransitive)
        none == [clc |-> EmptyCLC, flags |-> EmptyFlags, info |-> NoInfo, proguard |-> NoInfo,
                 dexJarFile |-> DexJarFileOf(module[n], n),
                 dexJarInstallFile |-> DexJarInstallFileOf(module[n], n)]
    IN  IF module[n].moduleType = "java_import"
        THEN LET o == ImportOutputs(n, module[n], config, deps[n], pub)
             IN  [none EXCEPT !.clc = o.clc, !.flags = o.flags, !.info = o.info,
                              !.dexJarFile = o.dexJarFile,
                              !.dexJarInstallFile = o.dexJarInstallFile]
        ELSE IF IsLibraryType(n)
        THEN [none EXCEPT !.clc = LibraryBuild(deps[n], pub).clc,
                          !.info = LibraryJavaInfo(n, j),
                          !.proguard = collectProguardSpecInfo(n, module[n], deps[n], pub)]
        ELSE none

\* C8: whatever the order in which the modules were generated, each generated
\* module's classpaths, JavaInfo and class loader contexts are those the
\* dependency graph determines.
C8_OutputsDependOnGraphOnly ==
    \A n \in generated :
        /\ classLoaderContexts[n] = ExpectedOutput(n).clc
        /\ flags[n] = ExpectedOutput(n).flags
        /\ javaInfo[n] = ExpectedOutput(n).info

C8_Witness ==
    /\ generated = Modules
    /\ deps[2] = << >>
    /\ Len(deps[3]) = 2
    /\ deps[3][1].dep = 2
    /\ deps[3][2].dep = 1
    /\ Len(classLoaderContexts[3][AnySdkVersion]) = 2
    /\ flags[3].classpath # << >>

\* The flags the classification rules give a predefined tag, by its name.
ExpectedFlags(name) ==
    IF name = "staticlib" THEN [runtimeLinked |-> FALSE, toolchain |-> FALSE]
    ELSE IF name \in {"javalib", "sdklib", "bootclasspath", "system modules"}
    THEN [runtimeLinked |-> TRUE, toolchain |-> FALSE]
    ELSE [runtimeLinked |-> FALSE, toolchain |-> TRUE]

\* C9: staticlib is neither runtime-linked nor toolchain; javalib, sdklib,
\* bootclasspath and system modules are runtime-linked; plugin and
\* exported-plugin are toolchain and not runtime-linked.
C9_PredefinedTagFlags ==
    (curTag \in PredefinedTags
        /\ curTag.name \in {"staticlib", "javalib", "sdklib", "plugin", "exported-plugin",
                            "bootclasspath", "system modules"}) =>
        /\ curTag.runtimeLinked = ExpectedFlags(curTag.name).runtimeLinked
        /\ curTag.name \in {"staticlib", "plugin", "exported-plugin"} =>
              curTag.toolchain = ExpectedFlags(curTag.name).toolchain

C9_Witness == curTag \in PredefinedTags /\ curTag.name = "exported-plugin"

\* C10: a tag built by makeUsesLibraryDependencyTag(v, opt) carries v and opt,
\* is named "uses-library-<v>", is runtime-linked and not toolchain; the five
\* predefined uses-library tags are (any, required), (any, optional),
\* (28, optional), (29, required) and (30, optional).
C10_UsesLibraryTagFields ==
    /\ tagArgs # NoArgs =>
          /\ curTag.sdkVersion = tagArgs[1]
          /\ curTag.optional = tagArgs[2]
          /\ curTag.dependencyTag.name = "uses-library-" \o ToString(tagArgs[1])
          /\ curTag.dependencyTag.runtimeLinked
          /\ ~curTag.dependencyTag.toolchain
    /\ curTag \in PredefinedUsesLibTags =>
          <<curTag.sdkVersion, curTag.optional>> \in
              {<<AnySdkVersion, FALSE>>, <<AnySdkVersion, TRUE>>, <<28, TRUE>>,
               <<29, FALSE>>, <<30, TRUE>>}
    /\ <<usesLibReqTag.sdkVersion, usesLibReqTag.optional>> = <<AnySdkVersion, FALSE>>
    /\ <<usesLibOptTag.sdkVersion, usesLibOptTag.optional>> = <<AnySdkVersion, TRUE>>
    /\ <<usesLibCompat28OptTag.sdkVersion, usesLibCompat28OptTag.optional>> = <<28, TRUE>>
    /\ <<usesLibCompat29ReqTag.sdkVersion, usesLibCompat29ReqTag.optional>> = <<29, FALSE>>
    /\ <<usesLibCompat30OptTag.sdkVersion, usesLibCompat30OptTag.optional>> = <<30, TRUE>>

C10_Witness == tagArgs = <<29, TRUE>> /\ curTag.dependencyTag.name = "uses-library-29"

\* The elements of a sequence.
SetOf(seq) == {seq[i] : i \in DOMAIN seq}

RECURSIVE HeaderJarsOver(_, _)
\* The header jars of the dependencies of these edges that publish JavaInfo,
\* edge by edge.
HeaderJarsOver(edges, tags) ==
    IF edges = << >> THEN << >>
    ELSE (IF Head(edges).tag \in tags /\ javaInfo[Head(edges).dep].provided
          THEN javaInfo[Head(edges).dep].HeaderJars ELSE << >>)
         \o HeaderJarsOver(Tail(edges), tags)

\* Module n is a generated java_import all of whose dependencies publish JavaInfo.
ImportOverJavaInfo(n) ==
    /\ n \in generated
    /\ module[n].moduleType = "java_import"
    /\ \A i \in DOMAIN deps[n] : javaInfo[deps[n][i].dep].provided

Occurrences(seq, x) == Cardinality({i \in DOMAIN seq : seq[i] = x})

StaticChain(a, b, c) ==
    /\ ImportOverJavaInfo(a)
    /\ deps[a] = <<[tag |-> staticLibTag, dep |-> b]>>
    /\ deps[b] = <<[tag |-> staticLibTag, dep |-> c]>>
    /\ javaInfo[c].provided

StaticDeps(n) ==
    {deps[n][i].dep : i \in {k \in DOMAIN deps[n] :
        deps[n][k].tag = staticLibTag /\ javaInfo[deps[n][k].dep].provided}}
SharedDeps(n) ==
    {deps[n][i].dep : i \in {k \in DOMAIN deps[n] :
        IsSharedEdgeTag(deps[n][k].tag) /\ javaInfo[deps[n][k].dep].provided}}

RECURSIVE StaticReach(_, _)
\* Module t is reached from module n over static_libs edges alone.
StaticReach(n, t) ==
    \E i \in DOMAIN deps[n] :
        /\ deps[n][i].tag = staticLibTag
        /\ deps[n][i].dep = t \/ StaticReach(deps[n][i].dep, t)

\* C15: the keep-rule files of a node leave out the flags file of a libs
\* dependency that does not export its flags (unless static_libs edges lead to
\* it as well), and hold all ProguardFlagsFiles of every static_libs
\* dependency, whether that dependency exports its flags or not.
C15_KeepRulesHonourExportPolicy ==
    \A n \in generated : proguardSpecInfo[n].provided =>
        \A i \in DOMAIN deps[n] :
            LET d == deps[n][i].dep
                own == SetOf(proguardSpecInfo[n].ProguardFlagsFiles)
            IN  proguardSpecInfo[d].provided =>
                  /\ (/\ IsLibDepTag(deps[n][i].tag)
                      /\ ~module[d].export_proguard_flags_files
                      /\ ~StaticReach(n, d)) => ProguardFlagsFile(d) \notin own
                  /\ deps[n][i].tag = staticLibTag =>
                        SetOf(proguardSpecInfo[d].ProguardFlagsFiles) \subseteq own

C15_Witness ==
    /\ 3 \in generated
    /\ proguardSpecInfo[3].provided
    /\ deps[3] = <<[tag |-> libTag, dep |-> 2], [tag |-> staticLibTag, dep |-> 1]>>
    /\ ~module[2].export_proguard_flags_files
    /\ ~module[1].export_proguard_flags_files
    /\ proguardSpecInfo[3].ProguardFlagsFiles = <<ProguardFlagsFile(3), ProguardFlagsFile(1)>>

\* Module n depends on s over a libs edge, s on t over a libs edge, and t is
\* reached from n in no other way.
OnlyThroughShared(n, s, t) ==
    /\ n \in generated
    /\ proguardSpecInfo[n].provided /\ proguardSpecInfo[s].provided
    /\ proguardSpecInfo[t].provided
    /\ \E i \in DOMAIN deps[n] : deps[n][i].dep = s /\ IsLibDepTag(deps[n][i].tag)
    /\ \E i \in DOMAIN deps[s] : deps[s][i].dep = t /\ IsLibDepTag(deps[s][i].tag)
    /\ ~StaticReach(s, t)
    /\ \A i \in DOMAIN deps[n] : deps[n][i].dep # t

\* C16 as stated: a flags file that reaches s only through the libs
\* dependencies of s is never among the keep-rule files of a node that depends
\* on s over a libs edge.
C16_NothingPassesASharedEdge ==
    \A n, s, t \in Modules : OnlyThroughShared(n, s, t) =>
        ProguardFlagsFile(t) \notin SetOf(proguardSpecInfo[n].ProguardFlagsFiles)

\* C16 amended: a flags file that reaches s only through the libs dependencies
\* of s is among the keep-rule files of a node that depends on s over a libs
\* edge exactly when the module that owns the file exports its flags files;
\* a static_libs dependency hands on all of its ProguardFlagsFiles.
C16_ExportedFlagsPassSharedEdges ==
    /\ \A n, s, t \in Modules : OnlyThroughShared(n, s, t) =>
          (ProguardFlagsFile(t) \in SetOf(proguardSpecInfo[n].ProguardFlagsFiles)
              <=> module[t].export_proguard_flags_files)
    /\ \A n \in generated : \A i \in DOMAIN deps[n] :
          (/\ proguardSpecInfo[n].provided
           /\ proguardSpecInfo[deps[n][i].dep].provided
           /\ deps[n][i].tag = staticLibTag) =>
              SetOf(proguardSpecInfo[deps[n][i].dep].ProguardFlagsFiles)
                  \subseteq SetOf(proguardSpecInfo[n].ProguardFlagsFiles)

C16_Witness ==
    /\ OnlyThroughShared(3, 2, 1)
    /\ module[1].export_proguard_flags_files
    /\ ~module[2].export_proguard_flags_files
    /\ ProguardFlagsFile(1) \in SetOf(proguardSpecInfo[3].ProguardFlagsFiles)

\* The names of the edges of sdkEdges that carry tag.
SdkEdgeNames(tag) == {sdkEdges[i].name : i \in {k \in DOMAIN sdkEdges : sdkEdges[k].tag = tag}}

\* C17: the SDK resolver picks by language level.  For a level of 9 or higher
\* javac gets the system modules of the sdkDep and its java9Classpath modules
\* in front of the classpath, and no legacy bootclasspath; for a level below 9
\* it gets the legacy bootclasspath and no system modules.  A module SDK has a
\* dependency for each bootclasspath and java9Classpath module and for its
\* system modules, so either choice is there to be made.
C17_SdkResolverPicksByLevel ==
    LET sdk == SdkDepOf(config, sdkContext)
    IN  /\ javac.usesJavaModules <=> javaVersion >= 9
        /\ javaVersion >= 9 =>
              /\ javac.systemModules = sdk.systemModules
              /\ javac.classpath = sdk.java9Classpath \o sdk.classpath
              /\ javac.bootclasspath = << >>
        /\ javaVersion < 9 =>
              /\ javac.bootclasspath = sdk.bootclasspath
              /\ javac.classpath = sdk.classpath
              /\ javac.systemModules = ""
        /\ sdk.useModule =>
              /\ SdkEdgeNames(bootClasspathTag) = SetOf(sdk.bootclasspath)
              /\ SdkEdgeNames(java9LibTag) = SetOf(sdk.java9Classpath)
        /\ SdkEdgeNames(systemModulesTag) =
              (IF sdk.systemModules = "" THEN {} ELSE {sdk.systemModules})

\* Level 9 itself, on an SDK with system modules and a legacy bootclasspath.
C17_Witness ==
    /\ javaVersion = 9
    /\ javac.usesJavaModules
    /\ javac.systemModules # ""
    /\ javac.classpath # << >>
    /\ javac.bootclasspath = << >>
    /\ SdkDepOf(config, sdkContext).bootclasspath # << >>
    /\ SdkEdgeNames(systemModulesTag) # {}

\* The sdkDep decodeSdkDep gives for the declaration of module n.
DeclSdkDep(n) == decodeSdkDep(ModuleContext(NoString, 0), config, module[n]).sdkDep

IsDexImport(n) == module[n].moduleType = "java_import" /\ module[n].dex

\* C18: an import that builds a dex jar and whose sdkDep has invalidVersion
\* records the bootclasspath and java9Classpath modules of the sdkDep as
\* missing dependencies, reports no module error and still builds its dex jar;
\* if missing dependencies are not allowed, the SDK that cannot be resolved is
\* a module error and nothing is recorded as missing.
C18_InvalidSdkVersionIsMissingDependency ==
    \A n \in generated :
        IsDexImport(n) =>
            /\ DeclSdkDep(n).invalidVersion =>
                  /\ missingDeps[n] = DeclSdkDep(n).bootclasspath \o DeclSdkDep(n).java9Classpath
                  /\ errors[n] = 0
                  /\ dexJarFile[n] # NoPath
                  /\ javaInfo[n].provided
            /\ (module[n].sdk_version = "missing" /\ ~config.AllowMissingDependencies) =>
                  /\ errors[n] > 0
                  /\ missingDeps[n] = << >>

C18_Witness ==
    \E n \in generated :
        /\ IsDexImport(n)
        /\ DeclSdkDep(n).invalidVersion
        /\ config.AllowMissingDependencies
        /\ missingDeps[n] # << >>
        /\ errors[n] = 0

\* C19: no GenerateAndroidBuildActions panics.  (Violated: ApiLibrary calls
\* providerApiFile.String() on the nil api file of a contribution without
\* api_file, whether or not it has just reported it as a module error.)
C19_NoEvaluationPanics == panicked = {}

\* A file-generating dependency without JavaInfo one of whose files is no jar.
ProducesNonJar(m) ==
    /\ ~javaInfo[m].provided
    /\ module[m].moduleType = "java_genrule"
    /\ \E i \in DOMAIN module[m].srcs : Ext(module[m].srcs[i]) # ".jar"

\* C20: a module with a libs or static_libs dependency that publishes no
\* JavaInfo and produces a file that is no jar has a module error.  (Violated:
\* Import.GenerateAndroidBuildActions never calls checkProducesJars.)
C20_NonJarProducerIsReported ==
    \A n \in generated : \A i \in DOMAIN deps[n] :
        (deps[n][i].tag \in {libTag, staticLibTag} /\ ProducesNonJar(deps[n][i].dep)) =>
            errors[n] > 0

\* The header jars published by the dependencies of n over edges with these tags.
HeaderJarSetOver(n, tags) ==
    UNION {SetOf(javaInfo[deps[n][i].dep].HeaderJars) :
              i \in {k \in DOMAIN deps[n] : /\ deps[n][k].tag \in tags
                                            /\ javaInfo[deps[n][k].dep].provided}}

\* C21: on a generated java_import the dex classpath holds the header jars of
\* the libs and sdklib dependencies and no others, the compile classpath holds
\* those of the static_libs dependencies as well, and the header jars of a
\* dependency reached by static_libs edges alone are not on the dex classpath.
C21_DexClasspathHasNonStaticDepsOnly ==
    \A n \in generated : module[n].moduleType = "java_import" =>
        /\ SetOf(flags[n].dexClasspath) = HeaderJarSetOver(n, {libTag, sdkLibTag})
        /\ HeaderJarSetOver(n, {libTag, sdkLibTag, staticLibTag}) \subseteq SetOf(flags[n].classpath)
        /\ (HeaderJarSetOver(n, {staticLibTag}) \ HeaderJarSetOver(n, {libTag, sdkLibTag}))
              \cap SetOf(flags[n].dexClasspath) = {}

C21_Witness ==
    \E n \in generated :
        /\ module[n].moduleType = "java_import"
        /\ HeaderJarSetOver(n, {staticLibTag}) # {}
        /\ HeaderJarSetOver(n, {libTag}) # {}
        /\ HeaderJarSetOver(n, {staticLibTag}) \cap HeaderJarSetOver(n, {libTag}) = {}
        /\ SetOf(flags[n].dexClasspath) = HeaderJarSetOver(n, {libTag})
        /\ HeaderJarSetOver(n, {staticLibTag}) \subseteq SetOf(flags[n].classpath)

\* C22: over a libs or sdklib edge, or an any-version uses-library edge, to a
\* dependency that is a library but no SDK-surface library, the node's map has
\* no entry for the dependency itself and holds every entry of the
\* dependency's own map, in the same bucket.
C22_NonSdkLibraryIsMergedUpward ==
    \A n \in generated : \A i \in DOMAIN deps[n] :
        LET d == deps[n][i].dep
            own == classLoaderContexts[n]
            other == classLoaderContexts[d]
        IN  (PropagatingEdge(deps[n][i].tag) /\ View(d).isUsesLibraryDependency /\ ~Visible(d)) =>
                /\ \A b \in Buckets :
                      NamedEntries(own, b, RemoveOptionalPrebuiltPrefix(View(d).name)) = {}
                /\ \A b \in Buckets : \A k \in DOMAIN other[b] :
                      \E j \in NamedEntries(own, b, other[b][k].Name) :
                          own[b][j] = other[b][k]

C22_Witness ==
    \E n \in generated : \E i \in DOMAIN deps[n] :
        /\ deps[n][i].tag = libTag
        /\ View(deps[n][i].dep).isUsesLibraryDependency
        /\ ~Visible(deps[n][i].dep)
        /\ classLoaderContexts[deps[n][i].dep][AnySdkVersion] # << >>
        /\ classLoaderContexts[n][AnySdkVersion] = classLoaderContexts[deps[n][i].dep][AnySdkVersion]

\* The names of the edges of sdkEdges that carry tag, in the order added.
SdkEdgeNameSeq(tag) ==
    LET HasTag(e) == e.tag = tag
        sel == SelectSeq(sdkEdges, HasTag)
    IN  [i \in DOMAIN sel |-> sel[i].name]

\* C23: sdkDeps has added a system-modules edge exactly if systemModules of
\* the sdkDep is not the empty string, whatever useModule is, and then one edge
\* to that module; bootclasspath, java9lib and sdklib edges are there only if
\* useModule is set, and then they are those of the three lists of the sdkDep.
C23_SystemModulesEdgeIffNamed ==
    LET sdk == SdkDepOf(config, sdkContext)
    IN  /\ SdkEdgeNameSeq(systemModulesTag) =
              (IF sdk.systemModules # "" THEN <<sdk.systemModules>> ELSE << >>)
        /\ ~sdk.useModule =>
              \A i \in DOMAIN sdkEdges :
                  sdkEdges[i].tag \notin {bootClasspathTag, java9LibTag, sdkLibTag}
        /\ sdk.useModule =>
              /\ SdkEdgeNameSeq(bootClasspathTag) = sdk.bootclasspath
              /\ SdkEdgeNameSeq(java9LibTag) = sdk.java9Classpath
              /\ SdkEdgeNameSeq(sdkLibTag) = sdk.classpath

\* System modules without useModule: the one edge is the system-modules edge,
\* though the sdkDep names bootclasspath modules.
C23_Witness ==
    LET sdk == SdkDepOf(config, sdkContext)
    IN  /\ ~sdk.useModule
        /\ sdk.systemModules # ""
        /\ sdk.bootclasspath # << >>
        /\ Len(sdkEdges) = 1
        /\ sdkEdges[1].tag = systemModulesTag

\* C29: proguard-raise edges are there only if useModule is set and
\* optimization is enabled; if those to the framework libraries are there, so
\* are those to the legacy core-platform bootclasspath libraries, before them;
\* with noStandardLibs there is none.
C29_ProguardRaiseEdges ==
    LET sdk == SdkDepOf(config, sdkContext)
        raise == SdkEdgeNameSeq(proguardRaiseTag)
    IN  /\ raise # << >> => (sdk.useModule /\ sdkContext.optimize)
        /\ SetOf(FrameworkLibraries) \cap SetOf(raise) # {} =>
              raise = LegacyCorePlatformBootclasspathLibraries \o FrameworkLibraries
        /\ sdk.noStandardLibs => raise = << >>
        /\ raise \in {<< >>, LegacyCorePlatformBootclasspathLibraries,
                      LegacyCorePlatformBootclasspathLibraries \o FrameworkLibraries}

\* Optimization on a module SDK with the standard but without the framework
\* libraries: the legacy raise edges alone.
C29_Witness ==
    LET sdk == SdkDepOf(config, sdkContext)
    IN  /\ sdk.useModule
        /\ sdkContext.optimize
        /\ ~sdk.noStandardLibs
        /\ sdk.noFrameworksLibs
        /\ SdkEdgeNameSeq(proguardRaiseTag) = LegacyCorePlatformBootclasspathLibraries

\* C28: no predefined tag is both runtime-linked and toolchain, and the
\* license annotations of the tag in use are the shared-dependency annotation
\* alone exactly if it is runtime-linked, the toolchain annotation alone
\* exactly if it is toolchain and not runtime-linked, and none otherwise.
C28_AtMostOneLicenseAnnotation ==
    LET d == BaseTag(curTag)
    IN  /\ \A t \in PredefinedTags \cup PredefinedUsesLibTags :
              ~(BaseTag(t).runtimeLinked /\ BaseTag(t).toolchain)
        /\ Len(licenseAnnotations) <= 1
        /\ licenseAnnotations = <<"LicenseAnnotationSharedDependency">> <=> d.runtimeLinked
        /\ licenseAnnotations = <<"LicenseAnnotationToolchain">> <=>
              (d.toolchain /\ ~d.runtimeLinked)
        /\ licenseAnnotations = << >> <=> (~d.toolchain /\ ~d.runtimeLinked)

C28_Witness ==
    /\ curTag = kotlinPluginTag
    /\ tagArgs = NoArgs
    /\ licenseAnnotations = <<"LicenseAnnotationToolchain">>

\* C26: whatever the tag of the edge, addCLCFromDep on a published dependency
\* that is an SDK-surface library touches the any-version bucket alone and
\* adds at most one entry there, a required one; for an optional any-version
\* uses-library edge to a library the map does not hold yet it adds that
\* required entry; for a compatibility uses-library edge it leaves the map as
\* it is, with no entry added and no map merged.
C26_AddedEntryIsAnyVersionAndRequired ==
    \A n \in Modules : \A d \in generated :
        \A tag \in PredefinedTags \cup PredefinedUsesLibTags :
            LET before == classLoaderContexts[n]
                after == addCLCFromDep(ModuleContext(tag, 0), View(d), before).clcMap
                added == /\ Len(after[AnySdkVersion]) = Len(before[AnySdkVersion]) + 1
                         /\ SubSeq(after[AnySdkVersion], 1, Len(before[AnySdkVersion]))
                               = before[AnySdkVersion]
                         /\ after[AnySdkVersion][Len(after[AnySdkVersion])].Name
                               = UsesLibName(View(d))
                         /\ ~after[AnySdkVersion][Len(after[AnySdkVersion])].Optional
            IN  /\ (IsUsesLibraryDependencyTag(tag) /\ tag.sdkVersion # AnySdkVersion) =>
                      after = before
                /\ Visible(d) =>
                      /\ \A b \in Buckets \ {AnySdkVersion} : after[b] = before[b]
                      /\ after[AnySdkVersion] = before[AnySdkVersion] \/ added
                /\ (/\ tag = usesLibOptTag
                    /\ Visible(d)
                    /\ UsesLibName(View(d)) \notin EntryNames(before[AnySdkVersion])) => added

\* An import with a required entry for the SDK library it has a libs edge to,
\* beside a library that is no SDK-surface library and has a map of its own
\* for a compatibility edge to leave unmerged.
C26_Witness ==
    \E n \in generated : \E i \in DOMAIN deps[n] : \E m \in generated :
        /\ module[n].moduleType = "java_import"
        /\ deps[n][i].tag = libTag
        /\ Visible(deps[n][i].dep)
        /\ \E k \in EntriesFor(classLoaderContexts[n], AnySdkVersion, deps[n][i].dep) :
              ~classLoaderContexts[n][AnySdkVersion][k].Optional
        /\ View(m).isUsesLibraryDependency
        /\ ~Visible(m)
        /\ classLoaderContexts[m] # EmptyCLC

\* Import.GenerateAndroidBuildActions of the generated module n has taken one
\* of its two return statements: there was no deapexer provider for a variant
\* made for a prebuilt_apex, or the module had failed after the dex compilation.
ImportReturnedEarly(n) ==
    \/ module[n].forPrebuiltApex /\ module[n].deapexer = "none"
    \/ ~module[n].forPrebuiltApex /\ module[n].dex /\ errors[n] > 0

\* C27: a java_import has no JavaInfo before it is evaluated and never sets
\* another one after the first; once evaluated it has set JavaInfo unless it
\* took one of the two return statements, and in either case its class loader
\* contexts are those built from all of its direct dependencies.
C27_ImportPublishesJavaInfoOnceAtTheEnd ==
    /\ [](\A n \in Modules : module[n].moduleType = "java_import" =>
            /\ n \notin generated => ~javaInfo[n].provided
            /\ n \in generated =>
                  /\ javaInfo[n].provided <=> ~ImportReturnedEarly(n)
                  /\ classLoaderContexts[n] = ImportBuild(deps[n], Published).clc)
    /\ [][\A n \in Modules : javaInfo[n].provided => javaInfo'[n] = javaInfo[n]]_vars

\* Both return statements taken, each by an import that has an entry for the
\* SDK library below it in its class loader contexts and no JavaInfo.
C27_Witness ==
    \E n, m \in generated :
        /\ module[n].moduleType = "java_import"
        /\ module[n].forPrebuiltApex
        /\ module[n].deapexer = "none"
        /\ module[m].moduleType = "java_import"
        /\ module[m].dex
        /\ errors[m] > 0
        /\ ~javaInfo[n].provided
        /\ ~javaInfo[m].provided
        /\ classLoaderContexts[n][AnySdkVersion] # << >>
        /\ classLoaderContexts[m][AnySdkVersion] # << >>

\* The file has the base name of an api scope.
IsScopeFile(f) ==
    \E i \in DOMAIN scopeOrderedSourceFileNames : Base(f) = scopeOrderedSourceFileNames[i]

\* The place of the file's api scope, from the narrowest scope to the widest.
ScopeRank(f) ==
    CHOOSE i \in DOMAIN scopeOrderedSourceFileNames : Base(f) = scopeOrderedSourceFileNames[i]

\* C24: the files sortApiFilesByApiScope returns are in the order of their api
\* scopes, from the narrowest to the widest, and those of one scope are the
\* input files of that scope in input order; if every input file is a scope
\* file the result is a permutation of the input and no error is reported; if
\* one is not, a module error is reported and the file is not in the result.
C24_ApiFilesSortedByScope ==
    sortedApiFiles.called =>
        LET out == sortedApiFiles.srcFiles
        IN  /\ \A i, j \in DOMAIN out : i < j => ScopeRank(out[i]) <= ScopeRank(out[j])
            /\ \A k \in DOMAIN scopeOrderedSourceFileNames :
                  LET InScope(f) == Base(f) = scopeOrderedSourceFileNames[k]
                  IN  SelectSeq(out, InScope) = SelectSeq(apiFiles, InScope)
            /\ \A i \in DOMAIN out : IsScopeFile(out[i])
            /\ (\A i \in DOMAIN apiFiles : IsScopeFile(apiFiles[i])) =>
                  /\ Len(out) = Len(apiFiles)
                  /\ \A i \in DOMAIN apiFiles :
                        Occurrences(out, apiFiles[i]) = Occurrences(apiFiles, apiFiles[i])
                  /\ sortedApiFiles.errors = 0
            /\ (\E i \in DOMAIN apiFiles : ~IsScopeFile(apiFiles[i])) =>
                  /\ sortedApiFiles.errors > 0
                  /\ \A i \in DOMAIN apiFiles :
                        ~IsScopeFile(apiFiles[i]) => apiFiles[i] \notin SetOf(out)

\* Three scope files, a wider one first and two of one scope, put in order.
C24_Witness ==
    /\ sortedApiFiles.called
    /\ apiFiles = << <<"a", "system-current.txt">>, <<"b", "current.txt">>,
                     <<"a", "current.txt">> >>
    /\ sortedApiFiles.srcFiles = << <<"b", "current.txt">>, <<"a", "current.txt">>,
                                    <<"a", "system-current.txt">> >>
    /\ sortedApiFiles.errors = 0

\* The edges of deps to the binaries named in this property and in no other
\* data_device_bins_* property.
EdgesOnlyOf(property) ==
    LET p == testHostProperties
        others == UNION {SetOf(p[q]) : q \in (DOMAIN p) \ {property}}
        Own(d) == d.name \in SetOf(p[property]) \ others
    IN  SelectSeq(dataDeviceBinsDeps.deps, Own)

\* One edge per name of the property that no other property names, in the
\* variant given.
ExpectedOnlyOf(property, variations) ==
    LET p == testHostProperties
        others == UNION {SetOf(p[q]) : q \in (DOMAIN p) \ {property}}
        Own(name) == name \notin others
        names == SelectSeq(p[property], Own)
    IN  [i \in 1 .. Len(names) |->
            [variations |-> variations, tag |-> dataDeviceBinsTag, name |-> names[i]]]

\* C25: the binaries of data_device_bins_prefer32 get one edge each, in the
\* 32-bit variant if there is a 32-bit device target and else in the 64-bit
\* variant; with neither target a property error is reported and they get no
\* edge. The binaries of data_device_bins_both get an edge in each of the 32-bit
\* and 64-bit variants that exists, and the property is in error exactly when
\* neither exists.
C25_DeviceBinsVariants ==
    dataDeviceBinsDeps.called =>
        LET p == testHostProperties
            has32 == androidTargets.lib32
            has64 == androidTargets.lib64
            errs == SetOf(dataDeviceBinsDeps.propertyErrors)
        IN  /\ EdgesOnlyOf("Data_device_bins_prefer32") =
                  IF has32 THEN ExpectedOnlyOf("Data_device_bins_prefer32", "lib32")
                  ELSE IF has64 THEN ExpectedOnlyOf("Data_device_bins_prefer32", "lib64")
                  ELSE << >>
            /\ (p.Data_device_bins_prefer32 # << >> /\ ~has32 /\ ~has64) =>
                  /\ errs # {}
                  /\ p.Data_device_bins_both = << >> => "data_device_bins_prefer32" \in errs
            /\ "data_device_bins_prefer32" \in errs =>
                  p.Data_device_bins_prefer32 # << >> /\ ~has32 /\ ~has64
            /\ EdgesOnlyOf("Data_device_bins_both") =
                  (IF has32 THEN ExpectedOnlyOf("Data_device_bins_both", "lib32") ELSE << >>)
                  \o (IF has64 THEN ExpectedOnlyOf("Data_device_bins_both", "lib64")
                      ELSE << >>)
            /\ "data_device_bins_both" \in errs <=>
                  p.Data_device_bins_both # << >> /\ ~has32 /\ ~has64

\* A binary of data_device_bins_prefer32 with a 64-bit device target only, and
\* one of data_device_bins_both.
C25_Witness ==
    /\ dataDeviceBinsDeps.called
    /\ testHostProperties.Data_device_bins_prefer32 = <<"bin_a">>
    /\ testHostProperties.Data_device_bins_both = <<"bin_b">>
    /\ ~androidTargets.lib32
    /\ androidTargets.lib64
    /\ [variations |-> "lib64", tag |-> dataDeviceBinsTag, name |-> "bin_a"]
          \in SetOf(dataDeviceBinsDeps.deps)
    /\ [variations |-> "lib64", tag |-> dataDeviceBinsTag, name |-> "bin_b"]
          \in SetOf(dataDeviceBinsDeps.deps)
    /\ dataDeviceBinsDeps.propertyErrors = << >>

\* The language levels javac is run for.
SupportedJavaVersions ==
    {JAVA_VERSION_6, JAVA_VERSION_7, JAVA_VERSION_8, JAVA_VERSION_9, JAVA_VERSION_11,
     JAVA_VERSION_17}

\* C30: normalizeJavaVersion gives back v, without an error, on v.String() for
\* each level v of 6, 7, 8, 9, 11 and 17; "1.N" and "N" give level N for N from
\* 6 to 9; on "10", "12" to "16" and on every string that is no level it
\* reports a java_version property error and gives JAVA_VERSION_UNSUPPORTED.
C30_NormalizeJavaVersion ==
    normalized.called =>
        LET s == java_version.string
            levelStrings == {ToString(v) : v \in SupportedJavaVersions}
                                \cup {"1." \o ToString(N) : N \in 6 .. 9}
        IN  /\ \A v \in SupportedJavaVersions :
                  java_version.from = <<v>> =>
                      normalized.version = v /\ normalized.propertyErrors = << >>
            /\ \A N \in 6 .. 9 :
                  s \in {ToString(N), "1." \o ToString(N)} =>
                      normalized.version = N /\ normalized.propertyErrors = << >>
            /\ s \notin levelStrings =>
                  /\ normalized.version = JAVA_VERSION_UNSUPPORTED
                  /\ normalized.propertyErrors = <<"java_version">>

\* The level 9 written by String(), "1.9", is normalized to 9 again.
C30_Witness ==
    /\ normalized.called
    /\ java_version = [from |-> <<JAVA_VERSION_9>>, string |-> "1.9"]
    /\ normalized.version = JAVA_VERSION_9
    /\ normalized.propertyErrors = << >>

====
